---- MODULE Spec2Model ----
(***************************************************************************)
(* Product creation (buildProductCreationHandler) of dairycart: the root,  *)
(* its options and option values, the variants generated from the          *)
(* Cartesian product of the values, and the variant/value bridge rows,     *)
(* written inside one database transaction.                                *)
(* Then the archive of one variant (buildProductDeletionHandler) and of a  *)
(* root with everything that hangs on it.                                  *)
(* Then the archive of an option with its values, the creation of an       *)
(* option or of a value under an existing root, the update of a variant,   *)
(* the archive calls of the store taken alone, the cancellation of a       *)
(* request while its transaction is open, the webhook goroutines a         *)
(* creation starts, and two creations served side by side.                 *)
(*                                                                         *)
(* Strings are sequences of one-character strings, so that lower-casing,   *)
(* joining and formatting are computed and not assumed.                    *)
(***************************************************************************)
EXTENDS Integers, Sequences, FiniteSets, TLC

VARIABLES
    db,          \* committed rows of the five tables
    txn,         \* per worker: the open transaction and its uncommitted rows
    pc,          \* per worker: position inside the handler
    input,       \* per worker: the decoded ProductCreationInput
    productRoot, \* per worker: the in-memory models.ProductRoot being built
    idx,         \* per worker: loop positions and other locals of the handler
    resp,        \* per worker: what was written to the http.ResponseWriter
    failure,     \* per worker: the store call that failed and why (history)
    reqid,       \* per worker: serial number of the request being handled
    quota,       \* per worker: requests it may still receive
    nreq,        \* requests received so far
    setup,       \* which workers run and what they are sent, see Workload
    spawned,     \* webhook goroutines started: <<webhook, request>>
    calls,       \* per worker: the store calls of the current request, in order
    op,          \* per worker: the handler that serves the current request
    product,     \* per worker: the models.Product the deletion handler holds
    enumerated,  \* an option list and what the enumerator made of it
    orphaned,    \* write sets of transactions left open by a handler that returned
    cancelled,   \* the requests whose context was cancelled while they were served
    delivered    \* webhook goroutines that returned: <<webhook, request>>

vars == <<db, txn, pc, input, productRoot, idx, resp, failure, reqid, quota, nreq, setup, spawned,
          calls, op, product, enumerated, orphaned, cancelled, delivered>>

(***************************************************************************)
(* Bounds                                                                  *)
(***************************************************************************)
MaxOptions == 2
MaxValues == 2
MaxVariants == 4
MaxRequests == 1
ConcMaxOptions == 1
MaxArchiveRequests == 3
MaxStoreCalls == 2
MaxExtendRequests == 3
MaxUpdateRequests == 2
MaxRepeats == 2
LooseMaxOptions == 2
LooseMaxValues == 2

Procs == {1, 2}

(***************************************************************************)
(* Strings                                                                 *)
(***************************************************************************)
UpperChars == <<"A","B","C","D","E","F","G","H","I","J","K","L","M",
                "N","O","P","Q","R","S","T","U","V","W","X","Y","Z">>
LowerChars == <<"a","b","c","d","e","f","g","h","i","j","k","l","m",
                "n","o","p","q","r","s","t","u","v","w","x","y","z">>

\* strings.ToLower, on one character and on a string
ToLowerChar(c) ==
    IF \E i \in 1..Len(UpperChars) : UpperChars[i] = c
    THEN LowerChars[CHOOSE i \in 1..Len(UpperChars) : UpperChars[i] = c]
    ELSE c

ToLower(s) == [i \in 1..Len(s) |-> ToLowerChar(s[i])]

\* strings.Join(parts, sep)
RECURSIVE Join(_, _)
Join(parts, sep) ==
    IF Len(parts) = 0 THEN <<>>
    ELSE IF Len(parts) = 1 THEN parts[1]
    ELSE parts[1] \o sep \o Join(Tail(parts), sep)

\* variant: the summary is built from the lower-cased value
SummaryOfLowered(name, value) == name \o <<":", " ">> \o ToLower(value)

\* fmt.Sprintf("%s: %s", name, value)
SummaryOf(name, value) == name \o <<":", " ">> \o value

\* variant: the format string lacks the separator
SKUOfNoSeparator(prefix, postfix) == prefix \o postfix

\* fmt.Sprintf("%s_%s", prefix, postfix)
SKUOf(prefix, postfix) == prefix \o <<"_">> \o postfix

\* the characters of ValidURLCharactersPattern, [a-zA-Z\-_]
ValidChars == {UpperChars[i] : i \in 1..Len(UpperChars)}
              \cup {LowerChars[i] : i \in 1..Len(LowerChars)}
              \cup {"-", "_"}

restrictedStringIsValid(s) == Len(s) > 0 /\ \A i \in 1..Len(s) : s[i] \in ValidChars

(***************************************************************************)
(* Request payloads                                                        *)
(***************************************************************************)
NoUPC == <<>>

SKUs == { <<"m","u","g">>, <<"t","e","e">>, <<"m","!">> }
ConcSKUs == { <<"m","u","g">> }
UPCs == { NoUPC, <<"1","2">> }

\* the name of the product, which stands for the fields of the payload that
\* newProductFromCreationInput copies and no later step reads: name,
\* description, price, cost, quantity, dimensions
NoName == <<>>
DefaultName == <<"M","u","g">>
Names == { DefaultName, <<"C","u","p">> }

\* quantity_per_package of the payload: left out (0) or given
DefaultQuantityPerPackage == 3
QuantitiesPerPackage == { 0, DefaultQuantityPerPackage }

\* the SKU whose payloads are also sent under the other name and without a
\* quantity per package
NamedSKU == <<"t","e","e">>

\* newProduct.QuantityPerPackage = uint32(math.Max(float64(...), 1))
atLeastOne(q) == IF q < 1 THEN 1 ELSE q

OptionNames == << <<"S","i","z","e">>, <<"C","o","l","o","r">>, <<"F","i","t">> >>

ValuePool == << << <<"S">>, <<"M">>, <<"X","L">> >>,
                << <<"R","e","d">>, <<"B","l","u">>, <<"T","a","n">> >>,
                << <<"S","l","i","m">>, <<"W","i","d","e">>, <<"B","o","x">> >> >>

\* v1 * ... * vn
RECURSIVE ProductOfCounts(_)
ProductOfCounts(c) == IF Len(c) = 0 THEN 1 ELSE Head(c) * ProductOfCounts(Tail(c))

\* per-option value counts v1..vn
CountVectors == { c \in UNION { [1..n -> 1..MaxValues] : n \in 0..MaxOptions } :
                    ProductOfCounts(c) <= MaxVariants }

\* []ProductOptionCreationInput with the given value counts
OptionsFor(c) ==
    [i \in 1..Len(c) |-> [name |-> OptionNames[i], values |-> SubSeq(ValuePool[i], 1, c[i])]]

Inputs == { in \in { [sku |-> s, upc |-> u, name |-> n, quantity_per_package |-> q,
                             options |-> OptionsFor(c)] :
                            s \in SKUs, u \in UPCs, n \in Names, q \in QuantitiesPerPackage,
                            c \in CountVectors } :
                \/ in.name = DefaultName /\ in.quantity_per_package = DefaultQuantityPerPackage
                \/ /\ in.sku = NamedSKU /\ in.upc = NoUPC
                   /\ in.name # DefaultName /\ in.quantity_per_package = 0 }

\* payloads used when two workers run side by side
ConcInputs == { in \in Inputs : /\ in.sku \in ConcSKUs
                                /\ in.upc = NoUPC
                                /\ Len(in.options) <= ConcMaxOptions }

\* the option names a payload can repeat
LooseNames == {1, 2}

\* per option, the name and the number of values: names can repeat and an
\* option can come without values
LooseShapes == UNION { [1..n -> LooseNames \X (0..LooseMaxValues)] : n \in 0..LooseMaxOptions }

\* payloads as the decoder lets them through: validateRequestInput checks
\* neither the option names nor the number of values
LooseInputs == { [sku |-> s, upc |-> NoUPC, name |-> DefaultName, quantity_per_package |-> DefaultQuantityPerPackage,
                  options |-> [i \in 1..Len(sh) |->
                        [name |-> OptionNames[sh[i][1]],
                         values |-> SubSeq(ValuePool[sh[i][1]], 1, sh[i][2])]]] :
                    s \in ConcSKUs, sh \in LooseShapes }

\* payloads for a catalogue that is extended afterwards: no option, one
\* option of one value, the SKU the variant of that option gets, and the
\* same option name twice
ExtendInputs ==
    LET sku   == CHOOSE x \in ConcSKUs : TRUE
        size  == [name |-> OptionNames[1], values |-> SubSeq(ValuePool[1], 1, 1)]
        plain == [sku |-> sku, upc |-> NoUPC, name |-> DefaultName,
                  quantity_per_package |-> DefaultQuantityPerPackage, options |-> <<>>]
    IN { plain,
         [plain EXCEPT !.options = <<size>>],
         [plain EXCEPT !.sku = SKUOf(sku, ToLower(ValuePool[1][1]))],
         [plain EXCEPT !.options = <<size, size>>] }

\* the value counts of the payloads two workers are sent under different SKUs
PairCounts == { <<>>, <<2>>, <<1, 1>> }

\* payloads for two catalogue entries that do not collide
PairInputs == { [sku |-> s, upc |-> NoUPC, name |-> DefaultName,
                 quantity_per_package |-> DefaultQuantityPerPackage,
                 options |-> OptionsFor(c)] :
                    s \in { x \in SKUs : restrictedStringIsValid(x) }, c \in PairCounts }

\* the bodies of POST /v1/product/{product_root_id}/options: a name and
\* no value, one value, or the same value twice
OptionInputs ==
    UNION { { [name |-> OptionNames[i], values |-> vs] :
                vs \in { <<>>, <<ValuePool[i][1]>>, <<ValuePool[i][1], ValuePool[i][1]>> } } :
            i \in 1..2 }

\* the values POST /v1/product_options/{option_id}/value is sent
ValueInputs == { ValuePool[1][1], ValuePool[1][2] }

(***************************************************************************)
(* Combination enumerator                                                  *)
(***************************************************************************)
\* the optionData slice: one optionPlaceholder per value of every option
optionPlaceholders(inputOptions) ==
    [j \in 1..Len(inputOptions) |->
        [k \in 1..Len(inputOptions[j].Values) |->
            [ID            |-> inputOptions[j].Values[k].ID,
             Summary       |-> SummaryOf(inputOptions[j].Name, inputOptions[j].Values[k].Value),
             Value         |-> inputOptions[j].Values[k].Value,
             OriginalValue |-> inputOptions[j].Values[k]]]]

\* variant: a counter that ran past its list is not set back to 0
RECURSIVE nextFromNoReset(_, _, _)
nextFromNoReset(ix, sl, j) ==
    IF j < 1 THEN ix
    ELSE LET inc == [ix EXCEPT ![j] = @ + 1] IN
         IF j = 1 \/ inc[j] < Len(sl[j]) THEN inc
         ELSE nextFromNoReset(inc, sl, j - 1)

\* variant: a counter that ran past its list is set back to 0 and the
\* counter before it is left alone
RECURSIVE nextFromNoCarry(_, _, _)
nextFromNoCarry(ix, sl, j) ==
    IF j < 1 THEN ix
    ELSE LET inc == [ix EXCEPT ![j] = @ + 1] IN
         IF j = 1 \/ inc[j] < Len(sl[j]) THEN inc
         ELSE [inc EXCEPT ![j] = 0]

\* the body of next's loop from position j down (positions are 1-based here,
\* the counters in ix are 0-based as in the source)
RECURSIVE nextFrom(_, _, _)
nextFrom(ix, sl, j) ==
    IF j < 1 THEN ix
    ELSE LET inc == [ix EXCEPT ![j] = @ + 1] IN
         IF j = 1 \/ inc[j] < Len(sl[j]) THEN inc
         ELSE nextFrom([inc EXCEPT ![j] = 0], sl, j - 1)

next(ix, sl) == nextFrom(ix, sl, Len(ix))

\* one simpleProductOption, built from the counters ix
simpleProductOption(ix, od) ==
    [IDs            |-> [j \in 1..Len(ix) |-> od[j][ix[j] + 1].ID],
     OptionSummary  |-> Join([j \in 1..Len(ix) |-> od[j][ix[j] + 1].Summary], <<",", " ">>),
     SKUPostfix     |-> Join([j \in 1..Len(ix) |-> ToLower(od[j][ix[j] + 1].Value)], <<"_">>),
     OriginalValues |-> [j \in 1..Len(ix) |-> od[j][ix[j] + 1].OriginalValue]]

\* the for loop of generateCartesianProductForOptions; an index out of range
\* (ix[0] of an empty slice, or a counter past an empty value list) panics
RECURSIVE cartesianLoop(_, _, _)
cartesianLoop(ix, od, output) ==
    IF Len(od) = 0 THEN [panicked |-> TRUE, output |-> output]
    ELSE IF ~(ix[1] < Len(od[1])) THEN [panicked |-> FALSE, output |-> output]
    ELSE IF \E j \in 1..Len(ix) : ix[j] >= Len(od[j]) THEN [panicked |-> TRUE, output |-> output]
    ELSE cartesianLoop(next(ix, od), od, Append(output, simpleProductOption(ix, od)))

generateCartesianProductForOptions(inputOptions) ==
    LET od == optionPlaceholders(inputOptions) IN
    cartesianLoop([j \in 1..Len(od) |-> 0], od, <<>>)

(***************************************************************************)
(* The store: five tables, unique constraints, transactions                *)
(***************************************************************************)
Tables == {"roots", "options", "values", "products", "bridges"}

EmptyTables == [t \in Tables |-> {}]

NoTx == [open |-> FALSE, w |-> EmptyTables]

\* archived_on of a row that was not archived (NULL)
Live == 0

\* the rows of base with the rows written in w put in place of, or added to,
\* them: a written row replaces the row with its id
Overlay(base, w) == { r \in base : ~\E x \in w : x.id = r.id } \cup w

\* rows a transaction of worker p reads: committed rows and its own writes
Visible(p, t) == Overlay(db[t], txn[p].w[t])

\* every row that holds an id of table t, committed or not
AllRows(t) == db[t] \cup UNION { txn[q].w[t] : q \in Procs }

Max(S) == CHOOSE m \in S : \A x \in S : x <= m

\* bigserial: ids are fresh and grow inside a transaction
NextID(t) == 1 + Max({0} \cup { r.id : r \in AllRows(t) })

\* variant: product_roots lacks UNIQUE (sku_prefix)
ConflictsWithoutPrefix(t, a, b) ==
    CASE t = "products" -> a.sku = b.sku \/ (a.upc # NoUPC /\ a.upc = b.upc)
      [] t = "options"  -> a.product_root_id = b.product_root_id /\ a.name = b.name
      [] t = "values"   -> a.product_option_id = b.product_option_id /\ a.value = b.value
      [] OTHER          -> FALSE

\* variant: product_options lacks UNIQUE (product_root_id, name)
ConflictsWithoutOptionName(t, a, b) ==
    CASE t = "roots"    -> a.sku_prefix = b.sku_prefix
      [] t = "products" -> a.sku = b.sku \/ (a.upc # NoUPC /\ a.upc = b.upc)
      [] t = "values"   -> a.product_option_id = b.product_option_id /\ a.value = b.value
      [] OTHER          -> FALSE

\* variant: the constraint on option names leaves archived options out
ConflictsAmongLiveOptions(t, a, b) ==
    CASE t = "roots"    -> a.sku_prefix = b.sku_prefix
      [] t = "products" -> a.sku = b.sku \/ (a.upc # NoUPC /\ a.upc = b.upc)
      [] t = "options"  -> /\ a.product_root_id = b.product_root_id /\ a.name = b.name
                           /\ a.archived_on = Live /\ b.archived_on = Live
      [] t = "values"   -> a.product_option_id = b.product_option_id /\ a.value = b.value
      [] OTHER          -> FALSE

\* the UNIQUE constraints of the schema
Conflicts(t, a, b) ==
    CASE t = "roots"    -> a.sku_prefix = b.sku_prefix
      [] t = "products" -> a.sku = b.sku \/ (a.upc # NoUPC /\ a.upc = b.upc)
      [] t = "options"  -> a.product_root_id = b.product_root_id /\ a.name = b.name
      [] t = "values"   -> a.product_option_id = b.product_option_id /\ a.value = b.value
      [] OTHER          -> FALSE

\* the insert raises a unique violation
Violates(p, t, r) == \E x \in Visible(p, t) : Conflicts(t, r, x)

\* the insert waits for another transaction that holds a conflicting row
Blocked(p, t, r) ==
    /\ ~Violates(p, t, r)
    /\ \E q \in Procs \ {p} : \E x \in txn[q].w[t] : Conflicts(t, r, x)

InsertInto(p, t, rows) == [txn EXCEPT ![p].w[t] = @ \cup rows]

\* UPDATE inside the transaction of p: the new versions of the rows
WriteRows(p, t, rows) == [txn EXCEPT ![p].w[t] = Overlay(@, rows)]

\* NOW(): the time the transaction of the request began
Now(p) == reqid[p]

\* the rows with archived_on set to NOW()
Archived(p, rows) == { [r EXCEPT !.archived_on = Now(p)] : r \in rows }

\* tx.Commit() that succeeds: the writes of p become visible to everyone
Committed(p) == [t \in Tables |-> Overlay(db[t], txn[p].w[t])]

\* SELECT EXISTS(... product_roots WHERE sku_prefix = $1 ...), run on db
ProductRootWithSKUPrefixExists(sku) == \E r \in db["roots"] : r.sku_prefix = sku

RegisteredWebhooks == {"hook"}

\* variant: the loop stops one option value early
buildMultiProductVariantBridgeCreationQueryShort(productID, optionValueIDs) ==
    [values |-> <<productID>> \o optionValueIDs,
     tuples |-> [ix \in 1..(Len(optionValueIDs) - 1) |-> <<1, ix + 1>>]]

\* buildMultiProductVariantBridgeCreationQuery: the argument list and, per
\* option value, the placeholder pair ($1, $ix+2) of one VALUES tuple
buildMultiProductVariantBridgeCreationQuery(productID, optionValueIDs) ==
    [values |-> <<productID>> \o optionValueIDs,
     tuples |-> [ix \in 1..Len(optionValueIDs) |-> <<1, ix + 1>>]]

\* variant: every row of the insert names the first value of the combination
BridgeRowsOfFirstValue(productID, optionValueIDs, firstID, rq) ==
    LET q == buildMultiProductVariantBridgeCreationQuery(productID, optionValueIDs) IN
    { [id                      |-> firstID + ix - 1,
       product_id              |-> q.values[q.tuples[ix][1]],
       product_option_value_id |-> q.values[q.tuples[1][2]],
       archived_on             |-> Live,
       req                     |-> rq] : ix \in 1..Len(q.tuples) }

\* CreateMultipleProductVariantBridgesForProductID: the rows of the insert
BridgeRows(productID, optionValueIDs, firstID, rq) ==
    LET q == buildMultiProductVariantBridgeCreationQuery(productID, optionValueIDs) IN
    { [id                      |-> firstID + ix - 1,
       product_id              |-> q.values[q.tuples[ix][1]],
       product_option_value_id |-> q.values[q.tuples[ix][2]],
       archived_on             |-> Live,
       req                     |-> rq] : ix \in 1..Len(q.tuples) }

(***************************************************************************)
(* buildProductCreationHandler, one action per store call                  *)
(***************************************************************************)
NoFailure == [step |-> "none", cause |-> "none"]

NoRoot == [ID |-> 0, SKUPrefix |-> <<>>, Options |-> <<>>, Products |-> <<>>]

NoIdx == [o |-> 0, v |-> 0, c |-> 0, product |-> 0, archiveTime |-> 0, optionID |-> 0]

NoProduct == [ID |-> 0, SKU |-> <<>>, ArchivedOn |-> Live]

\* the payloads a worker can be sent
Workload ==
    CASE setup = "serial"     -> Inputs
      [] setup = "concurrent" -> ConcInputs
      [] setup = "loose"      -> LooseInputs
      [] setup = "archive"    -> ConcInputs
      [] setup = "repeat"     -> ConcInputs
      [] setup = "store"      -> ConcInputs
      [] setup = "extend"     -> ExtendInputs
      [] setup = "update"     -> ConcInputs
      [] setup = "cancel"     -> ConcInputs
      [] setup = "notify"     -> ConcInputs
      [] setup = "pair"       -> PairInputs

\* whether a store call can fail for a reason of its own (connectivity and
\* the like); unique violations are raised in both setups
Faults == IF setup \in {"concurrent", "archive", "store", "extend", "update", "pair"} THEN {FALSE} ELSE BOOLEAN

\* what the webhook lookup can answer
WebhookOutcomes ==
    IF setup \in {"concurrent", "archive", "store", "extend", "update", "pair"} THEN {"rows", "norows"} ELSE {"rows", "norows", "fault"}

\* where the handler goes once every option and value row is written:
\* createProductsInDBFromOptionRows enumerates productRoot.Options first
AfterOptions(options) ==
    LET cart == generateCartesianProductForOptions(options) IN
    IF cart.panicked THEN "panicked"
    ELSE IF Len(cart.output) = 0 THEN "commit"
    ELSE "variant"

\* the store calls made for the current request of p grow by names
Called(p, names) == calls' = [calls EXCEPT ![p] = @ \o names]

\* the Storer method behind each create step
StoreCallOf(step) ==
    CASE step = "root"    -> "CreateProductRoot"
      [] step = "option"  -> "CreateProductOption"
      [] step = "value"   -> "CreateProductOptionValue"
      [] step = "product" -> "CreateProduct"
      [] step = "bridges" -> "CreateMultipleProductVariantBridgesForProductID"

\* variant: the SKU of the payload is not examined
skuCheckSkipped(in) == "none"

\* if !restrictedStringIsValid(productInput.SKU): what is written to the
\* response before any store call
skuCheck(in) == IF restrictedStringIsValid(in.sku) THEN "none" ELSE "invalid_sku"

\* the request is read and validated: validateRequestInput and
\* restrictedStringIsValid, before any store call
Receive(p) ==
    /\ pc[p] \in {"idle", "done"}
    /\ quota[p] > 0
    /\ \E in \in Workload :
        /\ input' = [input EXCEPT ![p] = in]
        /\ resp' = [resp EXCEPT ![p] = skuCheck(in)]
        /\ pc' = [pc EXCEPT ![p] = IF skuCheck(in) = "none" THEN "precheck" ELSE "done"]
    /\ quota' = [quota EXCEPT ![p] = @ - 1]
    /\ nreq' = nreq + 1
    /\ reqid' = [reqid EXCEPT ![p] = nreq + 1]
    /\ productRoot' = [productRoot EXCEPT ![p] = NoRoot]
    /\ idx' = [idx EXCEPT ![p] = NoIdx]
    /\ failure' = [failure EXCEPT ![p] = NoFailure]
    /\ calls' = [calls EXCEPT ![p] = <<>>]
    /\ op' = [op EXCEPT ![p] = "create"]
    /\ UNCHANGED <<db, txn, setup, orphaned, cancelled, delivered, enumerated, product, spawned>>

\* variant: only an error of the lookup stops the request
preCheckRejectsOnErrorOnly(err, exists) == err

\* if err != nil || exists
preCheckRejects(err, exists) == err \/ exists

\* client.ProductRootWithSKUPrefixExists(db, productInput.SKU)
PreCheck(p) ==
    /\ pc[p] = "precheck"
    /\ \E fault \in Faults :
        IF preCheckRejects(fault, ProductRootWithSKUPrefixExists(input[p].sku))
        THEN /\ pc' = [pc EXCEPT ![p] = "done"]
             /\ resp' = [resp EXCEPT ![p] = "already_exists"]
             /\ failure' = [failure EXCEPT ![p] =
                    [step |-> "precheck", cause |-> IF fault THEN "fault" ELSE "exists"]]
        ELSE /\ pc' = [pc EXCEPT ![p] = "begin"]
             /\ UNCHANGED <<resp, failure>>
    /\ Called(p, <<"ProductRootWithSKUPrefixExists">>)
    /\ UNCHANGED <<db, txn, input, productRoot, idx, reqid, quota, nreq, setup, orphaned, cancelled, delivered, enumerated, op, product, spawned>>

\* db.Begin()
Begin(p) ==
    /\ pc[p] = "begin"
    /\ \E fault \in Faults :
        IF fault
        THEN /\ pc' = [pc EXCEPT ![p] = "done"]
             /\ resp' = [resp EXCEPT ![p] = "internal"]
             /\ failure' = [failure EXCEPT ![p] = [step |-> "begin", cause |-> "fault"]]
             /\ UNCHANGED txn
        ELSE /\ pc' = [pc EXCEPT ![p] = "root"]
             /\ txn' = [txn EXCEPT ![p] = [open |-> TRUE, w |-> EmptyTables]]
             /\ UNCHANGED <<resp, failure>>
    /\ Called(p, <<"Begin">>)
    /\ UNCHANGED <<db, input, productRoot, idx, reqid, quota, nreq, setup, orphaned, cancelled, delivered, enumerated, op, product, spawned>>

\* variant: the error path commits what was written so far
AfterRollbackKeepsWrites(p) == Committed(p)

\* the committed rows once tx.Rollback() has run: none of the writes of p
AfterRollback(p) == db

\* variant: the commit error is raised after the writes were applied
AfterFailedCommitApplied(p) == Committed(p)

\* the committed rows once tx.Commit() has returned an error
AfterFailedCommit(p) == db

\* a create call returned an error: tx.Rollback(), notifyOfInternalIssue, return
RollbackAndFail(p, step, fault) ==
    /\ db' = AfterRollback(p)
    /\ txn' = [txn EXCEPT ![p] = NoTx]
    /\ pc' = [pc EXCEPT ![p] = "done"]
    /\ resp' = [resp EXCEPT ![p] = "internal"]
    /\ failure' = [failure EXCEPT ![p] =
            [step |-> step, cause |-> IF fault THEN "fault" ELSE "unique"]]
    /\ Called(p, <<StoreCallOf(step), "Rollback">>)
    /\ UNCHANGED <<productRoot, idx>>

\* client.CreateProductRoot(tx, productRoot), with SKUPrefix taken from the SKU
CreateProductRoot(p) ==
    /\ pc[p] = "root"
    /\ LET row == [id |-> NextID("roots"), sku_prefix |-> input[p].sku,
                      archived_on |-> Live, req |-> reqid[p]] IN
       /\ ~Blocked(p, "roots", row)
       /\ \E fault \in Faults :
           IF fault \/ Violates(p, "roots", row)
           THEN RollbackAndFail(p, "root", fault)
           ELSE /\ db' = db
                /\ txn' = InsertInto(p, "roots", {row})
                /\ Called(p, <<StoreCallOf("root")>>)
                /\ productRoot' = [productRoot EXCEPT ![p] =
                        [NoRoot EXCEPT !.ID = row.id, !.SKUPrefix = row.sku_prefix]]
                /\ idx' = [idx EXCEPT ![p] = [NoIdx EXCEPT !.o = 1]]
                /\ pc' = [pc EXCEPT ![p] =
                        IF Len(input[p].options) = 0 THEN "product" ELSE "option"]
                /\ UNCHANGED <<resp, failure>>
    /\ UNCHANGED <<input, reqid, quota, nreq, setup, orphaned, cancelled, delivered, enumerated, op, product, spawned>>

\* variant: the values of an option are passed over
AfterValueSkipsValues(p, o, v, options) ==
    IF o < Len(input[p].options) THEN "option" ELSE AfterOptions(options)

\* the position after the value v of option o has been written
AfterValue(p, o, v, options) ==
    IF v < Len(input[p].options[o].values) THEN "value"
    ELSE IF o < Len(input[p].options) THEN "option"
    ELSE AfterOptions(options)

\* createProductOptionAndValuesInDBFromInput: client.CreateProductOption
CreateProductOption(p) ==
    /\ pc[p] = "option"
    /\ LET o   == idx[p].o
           row == [id |-> NextID("options"), name |-> input[p].options[o].name,
                   product_root_id |-> productRoot[p].ID, archived_on |-> Live,
                   req |-> reqid[p]]
           opt == [ID |-> row.id, Name |-> row.name,
                   ProductRootID |-> row.product_root_id, Values |-> <<>>]
           options == Append(productRoot[p].Options, opt)
       IN
       /\ ~Blocked(p, "options", row)
       /\ \E fault \in Faults :
           IF fault \/ Violates(p, "options", row)
           THEN RollbackAndFail(p, "option", fault)
           ELSE /\ db' = db
                /\ txn' = InsertInto(p, "options", {row})
                /\ Called(p, <<StoreCallOf("option")>>)
                /\ productRoot' = [productRoot EXCEPT ![p].Options = options]
                /\ LET to == AfterValue(p, o, 0, options) IN
                   /\ pc' = [pc EXCEPT ![p] = to]
                   /\ idx' = [idx EXCEPT ![p] =
                        IF to = "value" THEN [@ EXCEPT !.v = 1]
                        ELSE IF to = "option" THEN [@ EXCEPT !.o = o + 1, !.v = 0]
                        ELSE [@ EXCEPT !.c = 1]]
                /\ UNCHANGED <<resp, failure>>
    /\ UNCHANGED <<input, reqid, quota, nreq, setup, orphaned, cancelled, delivered, enumerated, op, product, spawned>>

\* createProductOptionAndValuesInDBFromInput: client.CreateProductOptionValue
CreateProductOptionValue(p) ==
    /\ pc[p] = "value"
    /\ LET o   == idx[p].o
           v   == idx[p].v
           row == [id |-> NextID("values"), product_option_id |-> productRoot[p].Options[o].ID,
                   value |-> input[p].options[o].values[v], archived_on |-> Live,
                   req |-> reqid[p]]
           val == [ID |-> row.id, ProductOptionID |-> row.product_option_id, Value |-> row.value]
           options == [productRoot[p].Options EXCEPT ![o].Values = Append(@, val)]
       IN
       /\ ~Blocked(p, "values", row)
       /\ \E fault \in Faults :
           IF fault \/ Violates(p, "values", row)
           THEN RollbackAndFail(p, "value", fault)
           ELSE /\ db' = db
                /\ txn' = InsertInto(p, "values", {row})
                /\ Called(p, <<StoreCallOf("value")>>)
                /\ productRoot' = [productRoot EXCEPT ![p].Options = options]
                /\ LET to == AfterValue(p, o, v, options) IN
                   /\ pc' = [pc EXCEPT ![p] = to]
                   /\ idx' = [idx EXCEPT ![p] =
                        IF to = "value" THEN [@ EXCEPT !.v = v + 1]
                        ELSE IF to = "option" THEN [@ EXCEPT !.o = o + 1, !.v = 0]
                        ELSE [@ EXCEPT !.c = 1]]
                /\ UNCHANGED <<resp, failure>>
    /\ UNCHANGED <<input, reqid, quota, nreq, setup, orphaned, cancelled, delivered, enumerated, op, product, spawned>>

\* variant: the product is returned without the values that produced it
ProductOfWithoutValues(row, applicable) ==
    [ID |-> row.id, ProductRootID |-> row.product_root_id, SKU |-> row.sku, UPC |-> row.upc,
     Name |-> row.name, QuantityPerPackage |-> row.quantity_per_package,
     OptionSummary |-> row.option_summary, ApplicableOptionValues |-> <<>>]

\* the models.Product held in memory for a stored row
ProductOf(row, applicable) ==
    [ID |-> row.id, ProductRootID |-> row.product_root_id, SKU |-> row.sku, UPC |-> row.upc,
     Name |-> row.name, QuantityPerPackage |-> row.quantity_per_package,
     OptionSummary |-> row.option_summary, ApplicableOptionValues |-> applicable]

\* variant: the base product is named like a variant, prefix and separator
BaseProductRowSuffixed(r, np, id, rq) ==
    [id |-> id, product_root_id |-> r.ID, sku |-> np.sku \o <<"_">>, upc |-> np.upc, name |-> np.name,
     quantity_per_package |-> atLeastOne(np.quantity_per_package),
     option_summary |-> <<>>, archived_on |-> Live, req |-> rq]

\* the row of the product built by newProductFromCreationInput, which
\* carries the payload's own SKU, once ProductRootID is set
BaseProductRow(r, np, id, rq) ==
    [id |-> id, product_root_id |-> r.ID, sku |-> np.sku, upc |-> np.upc, name |-> np.name,
     quantity_per_package |-> atLeastOne(np.quantity_per_package),
     option_summary |-> <<>>, archived_on |-> Live, req |-> rq]

\* no options in the payload: client.CreateProduct(tx, newProduct)
CreateBaseProduct(p) ==
    /\ pc[p] = "product"
    /\ LET row == BaseProductRow(productRoot[p], input[p], NextID("products"), reqid[p]) IN
       /\ ~Blocked(p, "products", row)
       /\ \E fault \in Faults :
           IF fault \/ Violates(p, "products", row)
           THEN RollbackAndFail(p, "product", fault)
           ELSE /\ db' = db
                /\ txn' = InsertInto(p, "products", {row})
                /\ Called(p, <<StoreCallOf("product")>>)
                /\ productRoot' = [productRoot EXCEPT ![p].Options = <<>>,
                                                      ![p].Products = <<ProductOf(row, <<>>)>>]
                /\ pc' = [pc EXCEPT ![p] = "commit"]
                /\ UNCHANGED <<idx, resp, failure>>
    /\ UNCHANGED <<input, reqid, quota, nreq, setup, orphaned, cancelled, delivered, enumerated, op, product, spawned>>

\* variant: the product of a combination starts from an empty struct and
\* not from a copy of the template
VariantRowFromEmpty(r, np, option, id, rq) ==
    [id |-> id, product_root_id |-> r.ID,
     sku |-> SKUOf(r.SKUPrefix, option.SKUPostfix), upc |-> NoUPC, name |-> NoName,
     quantity_per_package |-> 0,
     option_summary |-> option.OptionSummary, archived_on |-> Live, req |-> rq]

\* the row createProductsInDBFromOptionRows builds for one combination
VariantRow(r, np, option, id, rq) ==
    [id |-> id, product_root_id |-> r.ID,
     sku |-> SKUOf(r.SKUPrefix, option.SKUPostfix), upc |-> np.upc, name |-> np.name,
     quantity_per_package |-> atLeastOne(np.quantity_per_package),
     option_summary |-> option.OptionSummary, archived_on |-> Live, req |-> rq]

\* createProductsInDBFromOptionRows: client.CreateProduct for combination c
CreateVariantProduct(p) ==
    /\ pc[p] = "variant"
    /\ LET option == generateCartesianProductForOptions(productRoot[p].Options).output[idx[p].c]
           row    == VariantRow(productRoot[p], input[p], option, NextID("products"), reqid[p])
       IN
       /\ ~Blocked(p, "products", row)
       /\ \E fault \in Faults :
           IF fault \/ Violates(p, "products", row)
           THEN RollbackAndFail(p, "product", fault)
           ELSE /\ db' = db
                /\ txn' = InsertInto(p, "products", {row})
                /\ Called(p, <<StoreCallOf("product")>>)
                /\ idx' = [idx EXCEPT ![p].product = row.id]
                /\ pc' = [pc EXCEPT ![p] = "bridges"]
                /\ UNCHANGED <<productRoot, resp, failure>>
    /\ UNCHANGED <<input, reqid, quota, nreq, setup, orphaned, cancelled, delivered, enumerated, op, product, spawned>>

\* createProductsInDBFromOptionRows:
\* client.CreateMultipleProductVariantBridgesForProductID(tx, p.ID, option.IDs)
CreateBridges(p) ==
    /\ pc[p] = "bridges"
    /\ LET output == generateCartesianProductForOptions(productRoot[p].Options).output
           option == output[idx[p].c]
           row    == CHOOSE r \in txn[p].w["products"] : r.id = idx[p].product
           rows   == BridgeRows(idx[p].product, option.IDs, NextID("bridges"), reqid[p])
       IN
       \E fault \in Faults :
           IF fault
           THEN RollbackAndFail(p, "bridges", fault)
           ELSE /\ db' = db
                /\ txn' = InsertInto(p, "bridges", rows)
                /\ Called(p, <<StoreCallOf("bridges")>>)
                /\ productRoot' = [productRoot EXCEPT ![p].Products =
                        Append(@, ProductOf(row, option.OriginalValues))]
                /\ IF idx[p].c < Len(output)
                   THEN /\ idx' = [idx EXCEPT ![p].c = @ + 1, ![p].product = 0]
                        /\ pc' = [pc EXCEPT ![p] = "variant"]
                   ELSE /\ idx' = [idx EXCEPT ![p].product = 0]
                        /\ pc' = [pc EXCEPT ![p] = "commit"]
                /\ UNCHANGED <<resp, failure>>
    /\ UNCHANGED <<input, reqid, quota, nreq, setup, orphaned, cancelled, delivered, enumerated, op, product, spawned>>

\* variant: the webhooks are dispatched before the result of tx.Commit() is
\* looked at
CommitAfterDispatch(p) ==
    /\ pc[p] = "commit"
    /\ \E fault \in Faults :
        IF fault
        THEN /\ pc' = [pc EXCEPT ![p] = "done"]
             /\ resp' = [resp EXCEPT ![p] = "internal"]
             /\ failure' = [failure EXCEPT ![p] = [step |-> "commit", cause |-> "fault"]]
             /\ db' = AfterFailedCommit(p)
        ELSE /\ pc' = [pc EXCEPT ![p] = "webhooks"]
             /\ db' = Committed(p)
             /\ UNCHANGED <<resp, failure>>
    /\ spawned' = spawned \cup { <<wh, reqid[p]>> : wh \in RegisteredWebhooks }
    /\ txn' = [txn EXCEPT ![p] = NoTx]
    /\ Called(p, <<"Commit">>)
    /\ UNCHANGED <<input, productRoot, idx, reqid, quota, nreq, setup, orphaned, cancelled, delivered, enumerated, op, product>>

\* tx.Commit(); when it fails the handler reports it and returns
Commit(p) ==
    /\ pc[p] = "commit"
    /\ \E fault \in Faults :
        IF fault
        THEN /\ pc' = [pc EXCEPT ![p] = "done"]
             /\ resp' = [resp EXCEPT ![p] = "internal"]
             /\ failure' = [failure EXCEPT ![p] = [step |-> "commit", cause |-> "fault"]]
             /\ db' = AfterFailedCommit(p)
        ELSE /\ pc' = [pc EXCEPT ![p] = "webhooks"]
             /\ db' = Committed(p)
             /\ UNCHANGED <<resp, failure>>
    /\ txn' = [txn EXCEPT ![p] = NoTx]
    /\ Called(p, <<"Commit">>)
    /\ UNCHANGED <<input, productRoot, idx, reqid, quota, nreq, setup, orphaned, cancelled, delivered, enumerated, op, product, spawned>>

\* client.GetWebhooksByEventType(db, ProductCreatedWebhookEvent), one
\* goroutine per webhook, then 201 and the encoded productRoot
NotifyAndRespond(p) ==
    /\ pc[p] = "webhooks"
    /\ \E outcome \in WebhookOutcomes :
        /\ pc' = [pc EXCEPT ![p] = "done"]
        /\ IF outcome = "fault"
           THEN /\ resp' = [resp EXCEPT ![p] = "internal"]
                /\ failure' = [failure EXCEPT ![p] = [step |-> "webhooks", cause |-> "fault"]]
                /\ UNCHANGED spawned
           ELSE /\ resp' = [resp EXCEPT ![p] = "created"]
                /\ spawned' = spawned \cup
                        (IF outcome = "rows"
                         THEN { <<wh, reqid[p]>> : wh \in RegisteredWebhooks } ELSE {})
                /\ UNCHANGED failure
    /\ Called(p, <<"GetWebhooksByEventType">>)
    /\ UNCHANGED <<db, txn, input, productRoot, idx, reqid, quota, nreq, setup, orphaned, cancelled, delivered, enumerated, op, product>>

(***************************************************************************)
(* buildProductDeletionHandler, one action per store call                  *)
(***************************************************************************)
\* whether a store call of an archive handler fails for a reason of its own
ArchiveFaults == BOOLEAN

\* a SKU no product has
UnknownSKU == <<"t","e","e">>

\* the {sku} of DELETE /v1/product/{sku}: a product's SKU or an unknown one
DeletionTargets == { x.sku : x \in db["products"] } \cup {UnknownSKU}

\* DELETE /v1/product/{sku} arrives: sku := chi.URLParam(req, "sku")
ReceiveDeletion(p) ==
    /\ setup = "archive"
    /\ pc[p] \in {"idle", "done"}
    /\ quota[p] > 0
    /\ \E sku \in DeletionTargets :
        input' = [input EXCEPT ![p] = [sku |-> sku, upc |-> NoUPC, name |-> NoName, quantity_per_package |-> 0, options |-> <<>>]]
    /\ pc' = [pc EXCEPT ![p] = "get"]
    /\ resp' = [resp EXCEPT ![p] = "none"]
    /\ op' = [op EXCEPT ![p] = "archive_product"]
    /\ quota' = [quota EXCEPT ![p] = @ - 1]
    /\ nreq' = nreq + 1
    /\ reqid' = [reqid EXCEPT ![p] = nreq + 1]
    /\ productRoot' = [productRoot EXCEPT ![p] = NoRoot]
    /\ product' = [product EXCEPT ![p] = NoProduct]
    /\ idx' = [idx EXCEPT ![p] = NoIdx]
    /\ failure' = [failure EXCEPT ![p] = NoFailure]
    /\ calls' = [calls EXCEPT ![p] = <<>>]
    /\ UNCHANGED <<db, txn, setup, orphaned, cancelled, delivered, enumerated, spawned>>

\* the live products with the SKU, as GetProductBySKU selects them
LiveProductsBySKU(sku) == { x \in db["products"] : x.sku = sku /\ x.archived_on = Live }

\* client.GetProductBySKU(db, sku): sql.ErrNoRows answers 404, any other
\* error 500
GetProductBySKU(p) ==
    /\ pc[p] = "get"
    /\ \E fault \in ArchiveFaults :
        IF fault
        THEN /\ pc' = [pc EXCEPT ![p] = "done"]
             /\ resp' = [resp EXCEPT ![p] = "internal"]
             /\ failure' = [failure EXCEPT ![p] = [step |-> "get", cause |-> "fault"]]
             /\ UNCHANGED product
        ELSE IF LiveProductsBySKU(input[p].sku) = {}
        THEN /\ pc' = [pc EXCEPT ![p] = "done"]
             /\ resp' = [resp EXCEPT ![p] = "not_found"]
             /\ failure' = [failure EXCEPT ![p] = [step |-> "get", cause |-> "norows"]]
             /\ UNCHANGED product
        ELSE /\ LET x == CHOOSE x \in LiveProductsBySKU(input[p].sku) : TRUE IN
                product' = [product EXCEPT ![p] =
                                [ID |-> x.id, SKU |-> x.sku, ArchivedOn |-> x.archived_on]]
             /\ pc' = [pc EXCEPT ![p] = "abegin"]
             /\ UNCHANGED <<resp, failure>>
    /\ Called(p, <<"GetProductBySKU">>)
    /\ UNCHANGED <<db, txn, input, productRoot, idx, reqid, quota, nreq, setup, orphaned, cancelled, delivered, enumerated, op,
                   spawned>>

\* db.Begin() of an archive handler; to is the position after it
BeginArchive(p, at, to) ==
    /\ pc[p] = at
    /\ \E fault \in ArchiveFaults :
        IF fault
        THEN /\ pc' = [pc EXCEPT ![p] = "done"]
             /\ resp' = [resp EXCEPT ![p] = "internal"]
             /\ failure' = [failure EXCEPT ![p] = [step |-> "begin", cause |-> "fault"]]
             /\ UNCHANGED txn
        ELSE /\ pc' = [pc EXCEPT ![p] = to]
             /\ txn' = [txn EXCEPT ![p] = [open |-> TRUE, w |-> EmptyTables]]
             /\ UNCHANGED <<resp, failure>>
    /\ Called(p, <<"Begin">>)
    /\ UNCHANGED <<db, input, productRoot, idx, reqid, quota, nreq, setup, orphaned, cancelled, delivered, enumerated, op,
                   product, spawned>>

\* tx, err := db.Begin()
BeginDeletion(p) == BeginArchive(p, "abegin", "abridges")

\* the ids of the rows of table t that a transaction nobody will ever end
\* has written, and so holds locked
Locked(t) == UNION { { r.id : r \in w[t] } : w \in orphaned }

\* an UPDATE of rows waits for as long as one of them is locked
Waits(t, rows) == \E r \in rows : r.id \in Locked(t)

\* an archive call returned an error the handler does not tolerate:
\* tx.Rollback(), notifyOfInternalIssue, return
RollbackArchive(p, call, cause) ==
    /\ db' = AfterRollback(p)
    /\ txn' = [txn EXCEPT ![p] = NoTx]
    /\ pc' = [pc EXCEPT ![p] = "done"]
    /\ resp' = [resp EXCEPT ![p] = "internal"]
    /\ failure' = [failure EXCEPT ![p] = [step |-> call, cause |-> cause]]
    /\ Called(p, <<call, "Rollback">>)

\* variant: the UPDATE matches no row
LiveBridgesOfNone(p, productID) == {}

\* variant: the UPDATE is not restricted to the product
LiveBridgesOfAnyProduct(p, productID) ==
    { b \in Visible(p, "bridges") : b.archived_on = Live }

\* the live bridge rows of a product, as the transaction of p sees them
LiveBridgesOf(p, productID) ==
    { b \in Visible(p, "bridges") : b.product_id = productID /\ b.archived_on = Live }

\* what DeleteProductVariantBridgeByProductID returns: QueryRow(...).Scan of
\* an UPDATE ... RETURNING that touched no row gives sql.ErrNoRows
bridgeArchiveError(fault, rows) ==
    IF fault THEN "fault" ELSE IF rows = {} THEN "ErrNoRows" ELSE "nil"

\* variant: every error of the bridge archive stops the handler
bridgeArchiveStopsOnAnyError(err) == err # "nil"

\* if err != nil && err != sql.ErrNoRows
bridgeArchiveStops(err) == err # "nil" /\ err # "ErrNoRows"

\* client.DeleteProductVariantBridgeByProductID(tx, product.ID)
DeleteProductVariantBridgeByProductID(p) ==
    /\ pc[p] = "abridges"
    /\ LET rows == LiveBridgesOf(p, product[p].ID) IN
       \E fault \in ArchiveFaults :
           LET err == bridgeArchiveError(fault, rows) IN
           IF bridgeArchiveStops(err)
           THEN /\ RollbackArchive(p, "DeleteProductVariantBridgeByProductID", err)
                /\ UNCHANGED product
           ELSE /\ db' = db
                /\ txn' = WriteRows(p, "bridges", Archived(p, rows))
                /\ pc' = [pc EXCEPT ![p] = "aproduct"]
                /\ Called(p, <<"DeleteProductVariantBridgeByProductID">>)
                /\ UNCHANGED <<resp, failure, product>>
    /\ UNCHANGED <<input, productRoot, idx, reqid, quota, nreq, setup, orphaned, cancelled, delivered, enumerated, op, spawned>>

\* archiveTime, err := client.DeleteProduct(tx, product.ID)
DeleteProduct(p) ==
    /\ pc[p] = "aproduct"
    /\ LET rows == { x \in Visible(p, "products") :
                        x.id = product[p].ID /\ x.archived_on = Live } IN
       \E fault \in ArchiveFaults :
           IF fault \/ rows = {}
           THEN /\ RollbackArchive(p, "DeleteProduct", IF fault THEN "fault" ELSE "ErrNoRows")
                /\ UNCHANGED idx
           ELSE /\ db' = db
                /\ txn' = WriteRows(p, "products", Archived(p, rows))
                /\ idx' = [idx EXCEPT ![p].archiveTime = Now(p)]
                /\ pc' = [pc EXCEPT ![p] = "acommit"]
                /\ Called(p, <<"DeleteProduct">>)
                /\ UNCHANGED <<resp, failure>>
    /\ UNCHANGED <<input, productRoot, reqid, quota, nreq, setup, orphaned, cancelled, delivered, enumerated, op, product,
                   spawned>>

\* tx.Commit() of an archive handler; to is the position after it and
\* answer what has been written to the response by then
CommitArchive(p, at, to, answer) ==
    /\ pc[p] = at
    /\ \E fault \in ArchiveFaults :
        IF fault
        THEN /\ pc' = [pc EXCEPT ![p] = "done"]
             /\ resp' = [resp EXCEPT ![p] = "internal"]
             /\ failure' = [failure EXCEPT ![p] = [step |-> "commit", cause |-> "fault"]]
             /\ db' = AfterFailedCommit(p)
        ELSE /\ pc' = [pc EXCEPT ![p] = to]
             /\ db' = Committed(p)
             /\ resp' = [resp EXCEPT ![p] = answer]
             /\ UNCHANGED failure
    /\ txn' = [txn EXCEPT ![p] = NoTx]
    /\ Called(p, <<"Commit">>)

\* err = tx.Commit(); product.ArchivedOn = archiveTime
CommitDeletion(p) ==
    /\ CommitArchive(p, "acommit", "awebhooks", "none")
    /\ product' = [product EXCEPT ![p].ArchivedOn =
                        IF pc'[p] = "awebhooks" THEN idx[p].archiveTime ELSE @]
    /\ UNCHANGED <<input, productRoot, idx, reqid, quota, nreq, setup, orphaned, cancelled, delivered, enumerated, op, spawned>>

\* client.GetWebhooksByEventType(db, ProductArchivedWebhookEvent), one
\* goroutine per webhook, then 200 and the encoded product
NotifyDeletion(p) ==
    /\ pc[p] = "awebhooks"
    /\ \E outcome \in {"rows", "norows", "fault"} :
        /\ pc' = [pc EXCEPT ![p] = "done"]
        /\ IF outcome = "fault"
           THEN /\ resp' = [resp EXCEPT ![p] = "internal"]
                /\ failure' = [failure EXCEPT ![p] = [step |-> "webhooks", cause |-> "fault"]]
                /\ UNCHANGED spawned
           ELSE /\ resp' = [resp EXCEPT ![p] = "archived"]
                /\ spawned' = spawned \cup
                        (IF outcome = "rows"
                         THEN { <<wh, reqid[p]>> : wh \in RegisteredWebhooks } ELSE {})
                /\ UNCHANGED failure
    /\ Called(p, <<"GetWebhooksByEventType">>)
    /\ UNCHANGED <<db, txn, input, productRoot, idx, reqid, quota, nreq, setup, orphaned, cancelled, delivered, enumerated, op,
                   product>>

(***************************************************************************)
(* Archive of a root, DELETE /v1/product_root/{product_root_id}: the steps *)
(* of the archive algorithm for a root                                     *)
(***************************************************************************)
\* an id no root has
UnknownID == 1 + Max({0} \cup { r.id : r \in db["roots"] })

\* the {product_root_id} of the request: a root's id or an unknown one
RootDeletionTargets == { r.id : r \in db["roots"] } \cup {UnknownID}

\* DELETE /v1/product_root/{product_root_id} arrives
ReceiveRootDeletion(p) ==
    /\ setup = "archive"
    /\ pc[p] \in {"idle", "done"}
    /\ quota[p] > 0
    /\ \E id \in RootDeletionTargets :
        productRoot' = [productRoot EXCEPT ![p] = [NoRoot EXCEPT !.ID = id]]
    /\ input' = [input EXCEPT ![p] = [sku |-> <<>>, upc |-> NoUPC, name |-> NoName, quantity_per_package |-> 0, options |-> <<>>]]
    /\ pc' = [pc EXCEPT ![p] = "rexists"]
    /\ resp' = [resp EXCEPT ![p] = "none"]
    /\ op' = [op EXCEPT ![p] = "archive_root"]
    /\ quota' = [quota EXCEPT ![p] = @ - 1]
    /\ nreq' = nreq + 1
    /\ reqid' = [reqid EXCEPT ![p] = nreq + 1]
    /\ product' = [product EXCEPT ![p] = NoProduct]
    /\ idx' = [idx EXCEPT ![p] = NoIdx]
    /\ failure' = [failure EXCEPT ![p] = NoFailure]
    /\ calls' = [calls EXCEPT ![p] = <<>>]
    /\ UNCHANGED <<db, txn, setup, orphaned, cancelled, delivered, enumerated, spawned>>

\* step 1: the target exists and is not archived, or the request ends
ProductRootExists(p) ==
    /\ pc[p] = "rexists"
    /\ \E fault \in ArchiveFaults :
        IF fault
        THEN /\ pc' = [pc EXCEPT ![p] = "done"]
             /\ resp' = [resp EXCEPT ![p] = "internal"]
             /\ failure' = [failure EXCEPT ![p] = [step |-> "exists", cause |-> "fault"]]
        ELSE IF ~\E r \in db["roots"] : r.id = productRoot[p].ID /\ r.archived_on = Live
        THEN /\ pc' = [pc EXCEPT ![p] = "done"]
             /\ resp' = [resp EXCEPT ![p] = "not_found"]
             /\ failure' = [failure EXCEPT ![p] = [step |-> "exists", cause |-> "norows"]]
        ELSE /\ pc' = [pc EXCEPT ![p] = "rbegin"]
             /\ UNCHANGED <<resp, failure>>
    /\ Called(p, <<"ProductRootExists">>)
    /\ UNCHANGED <<db, txn, input, productRoot, idx, reqid, quota, nreq, setup, orphaned, cancelled, delivered, enumerated, op,
                   product, spawned>>

\* step 2: open a transaction
BeginRootDeletion(p) == BeginArchive(p, "rbegin", "rbridges")

\* one archive write of the root archive: the live rows among rows get
\* archived_on; a failure rolls the transaction back
ArchiveRows(p, at, to, call, t, rows) ==
    /\ pc[p] = at
    /\ ~Waits(t, rows)
    /\ \E fault \in ArchiveFaults :
        IF fault
        THEN RollbackArchive(p, call, "fault")
        ELSE /\ db' = db
             /\ txn' = WriteRows(p, t, Archived(p, { r \in rows : r.archived_on = Live }))
             /\ pc' = [pc EXCEPT ![p] = to]
             /\ Called(p, <<call>>)
             /\ UNCHANGED <<resp, failure>>
    /\ UNCHANGED <<input, productRoot, idx, reqid, quota, nreq, setup, orphaned, cancelled, delivered, enumerated, op,
                   product, spawned>>

\* the live variants under the root, as the transaction of p sees them
LiveProductsOfRoot(p, rootID) ==
    { x \in Visible(p, "products") : x.product_root_id = rootID /\ x.archived_on = Live }

\* variant: the options of the root are not looked up
OptionsOfRootMissed(p, rootID) == {}

\* the options of the root, as the transaction of p sees them
OptionsOfRoot(p, rootID) == { o \in Visible(p, "options") : o.product_root_id = rootID }

\* variant: the variants are archived where the bridge rows should be
ArchiveRootProductsFirst(p) ==
    ArchiveRows(p, "rbridges", "rproducts", "ArchiveProductsOfRoot", "products",
                LiveProductsOfRoot(p, productRoot[p].ID))

\* step 3: the live bridge rows of every live variant under the root
ArchiveRootBridges(p) ==
    ArchiveRows(p, "rbridges", "rproducts", "ArchiveBridgesOfRoot", "bridges",
                UNION { LiveBridgesOf(p, x.id) : x \in LiveProductsOfRoot(p, productRoot[p].ID) })

\* step 3: then the variants
ArchiveRootProducts(p) ==
    ArchiveRows(p, "rproducts", "rvalues", "ArchiveProductsOfRoot", "products",
                LiveProductsOfRoot(p, productRoot[p].ID))

\* step 3: then the option values
ArchiveRootValues(p) ==
    ArchiveRows(p, "rvalues", "roptions", "ArchiveOptionValuesOfRoot", "values",
                { v \in Visible(p, "values") :
                    \E o \in OptionsOfRoot(p, productRoot[p].ID) : v.product_option_id = o.id })

\* step 3: then the options
ArchiveRootOptions(p) ==
    ArchiveRows(p, "roptions", "rroot", "ArchiveOptionsOfRoot", "options",
                OptionsOfRoot(p, productRoot[p].ID))

\* step 3: then the root itself
DeleteProductRoot(p) ==
    ArchiveRows(p, "rroot", "rcommit", "DeleteProductRoot", "roots",
                { r \in Visible(p, "roots") : r.id = productRoot[p].ID })

\* step 5: commit, and the answer
CommitRootDeletion(p) ==
    /\ CommitArchive(p, "rcommit", "done", "archived")
    /\ UNCHANGED <<input, productRoot, idx, reqid, quota, nreq, setup, orphaned, cancelled, delivered, enumerated, op,
                   product, spawned>>

(***************************************************************************)
(* Archive of an option, DELETE /v1/product_options/{option_id}            *)
(* (buildProductOptionDeletionHandler)                                     *)
(***************************************************************************)
\* an id no option has
UnknownOptionID == 1 + Max({0} \cup { o.id : o \in db["options"] })

\* the {option_id} of the request: an option's id or an unknown one
OptionDeletionTargets == { o.id : o \in db["options"] } \cup {UnknownOptionID}

\* DELETE /v1/product_options/{option_id} arrives:
\* optionID := chi.URLParam(req, "option_id")
ReceiveOptionDeletion(p) ==
    /\ setup \in {"archive", "extend"}
    /\ pc[p] \in {"idle", "done"}
    /\ quota[p] > 0
    /\ \E id \in OptionDeletionTargets :
        idx' = [idx EXCEPT ![p] = [NoIdx EXCEPT !.optionID = id]]
    /\ input' = [input EXCEPT ![p] = [sku |-> <<>>, upc |-> NoUPC, name |-> NoName, quantity_per_package |-> 0, options |-> <<>>]]
    /\ pc' = [pc EXCEPT ![p] = "oexists"]
    /\ resp' = [resp EXCEPT ![p] = "none"]
    /\ op' = [op EXCEPT ![p] = "archive_option"]
    /\ quota' = [quota EXCEPT ![p] = @ - 1]
    /\ nreq' = nreq + 1
    /\ reqid' = [reqid EXCEPT ![p] = nreq + 1]
    /\ productRoot' = [productRoot EXCEPT ![p] = NoRoot]
    /\ product' = [product EXCEPT ![p] = NoProduct]
    /\ failure' = [failure EXCEPT ![p] = NoFailure]
    /\ calls' = [calls EXCEPT ![p] = <<>>]
    /\ UNCHANGED <<db, txn, setup, orphaned, cancelled, delivered, enumerated, spawned>>

\* variant: the existence query without "AND archived_on IS NULL"
optionExistsArchivedToo(id) == \E o \in db["options"] : o.id = id

\* productOptionExistenceQuery:
\* SELECT EXISTS(SELECT 1 FROM product_options WHERE id = $1 AND archived_on IS NULL)
optionExists(id) == \E o \in db["options"] : o.id = id /\ o.archived_on = Live

\* optionExists, err := rowExistsInDB(db, productOptionExistenceQuery, optionID)
\* if err != nil || !optionExists { respondThatRowDoesNotExist(...); return }
ProductOptionExists(p) ==
    /\ pc[p] = "oexists"
    /\ \E fault \in ArchiveFaults :
        IF fault \/ ~optionExists(idx[p].optionID)
        THEN /\ pc' = [pc EXCEPT ![p] = "done"]
             /\ resp' = [resp EXCEPT ![p] = "not_found"]
             /\ failure' = [failure EXCEPT ![p] =
                                [step |-> "exists", cause |-> IF fault THEN "fault" ELSE "norows"]]
        ELSE /\ pc' = [pc EXCEPT ![p] = "obegin"]
             /\ UNCHANGED <<resp, failure>>
    /\ Called(p, <<"rowExistsInDB">>)
    /\ UNCHANGED <<db, txn, input, productRoot, idx, reqid, quota, nreq, setup, orphaned, cancelled, delivered,
                   enumerated, op, product, spawned>>

\* tx, err := db.Beginx()
BeginOptionDeletion(p) == BeginArchive(p, "obegin", "ovalues")

\* variant: tx.Rollback() before the handler gives up
GiveUpRollingBack(p, call) ==
    /\ RollbackArchive(p, call, "fault")
    /\ UNCHANGED <<orphaned, cancelled, delivered>>

\* an archive call of the option handler returned an error:
\* notifyOfInternalIssue, return. The transaction is neither rolled back
\* nor committed: it stays open with what it wrote, out of anyone's reach
GiveUp(p, call) ==
    /\ db' = db
    /\ orphaned' = orphaned \cup {txn[p].w}
    /\ UNCHANGED <<cancelled, delivered>>
    /\ txn' = [txn EXCEPT ![p] = NoTx]
    /\ pc' = [pc EXCEPT ![p] = "done"]
    /\ resp' = [resp EXCEPT ![p] = "internal"]
    /\ failure' = [failure EXCEPT ![p] = [step |-> call, cause |-> "fault"]]
    /\ Called(p, <<call>>)

\* one Exec of an archive UPDATE by the option handler
ExecArchive(p, at, to, call, t, rows) ==
    /\ pc[p] = at
    /\ ~Waits(t, rows)
    /\ \E fault \in ArchiveFaults :
        IF fault
        THEN GiveUp(p, call)
        ELSE /\ db' = db
             /\ txn' = WriteRows(p, t, Archived(p, rows))
             /\ pc' = [pc EXCEPT ![p] = to]
             /\ Called(p, <<call>>)
             /\ UNCHANGED <<resp, failure, orphaned, cancelled, delivered>>
    /\ UNCHANGED <<input, productRoot, idx, reqid, quota, nreq, setup, enumerated, op,
                   product, spawned>>

\* variant: the UPDATE of the values matches no row
LiveValuesOfOptionNone(p, optionID) == {}

\* productOptionValuesDeletionQueryByOptionID: UPDATE product_option_values
\* SET archived_on = NOW() WHERE product_option_id = $1 AND archived_on IS NULL
LiveValuesOfOption(p, optionID) ==
    { v \in Visible(p, "values") : v.product_option_id = optionID /\ v.archived_on = Live }

\* productOptionDeletionQuery: UPDATE product_options SET archived_on = NOW()
\* WHERE id = $1 AND archived_on IS NULL
LiveOptionsByID(p, optionID) ==
    { o \in Visible(p, "options") : o.id = optionID /\ o.archived_on = Live }

\* err = archiveProductOptionValuesForOption(tx, uint64(optionIDInt))
archiveProductOptionValuesForOption(p) ==
    ExecArchive(p, "ovalues", "ooption", "archiveProductOptionValuesForOption", "values",
                LiveValuesOfOption(p, idx[p].optionID))

\* err = archiveProductOption(tx, uint64(optionIDInt))
archiveProductOption(p) ==
    ExecArchive(p, "ooption", "ocommit", "archiveProductOption", "options",
                LiveOptionsByID(p, idx[p].optionID))

\* err = tx.Commit(); res.WriteHeader(http.StatusOK)
CommitOptionDeletion(p) ==
    /\ CommitArchive(p, "ocommit", "done", "archived")
    /\ UNCHANGED <<input, productRoot, idx, reqid, quota, nreq, setup, orphaned, cancelled, delivered, enumerated, op,
                   product, spawned>>

(***************************************************************************)
(* The archive operations of the store, called one at a time on the        *)
(* database handle: every call is a statement and a transaction of its own *)
(***************************************************************************)
\* the rows with archived_on set to at
ArchivedAt(rows, at) == { [r EXCEPT !.archived_on = at] : r \in rows }

\* one archive UPDATE ... RETURNING archived_on run by QueryRow(...).Scan, or
\* by Exec when scanned is FALSE: the rows it matched get the time NOW() of
\* the call; Scan of no row is sql.ErrNoRows
StoreCall(p, call, t, rows, scanned) ==
    /\ setup = "store"
    /\ pc[p] \in {"idle", "done"}
    /\ quota[p] > 0
    /\ db' = [db EXCEPT ![t] = Overlay(@, ArchivedAt(rows, nreq + 1))]
    /\ nreq' = nreq + 1
    /\ reqid' = [reqid EXCEPT ![p] = nreq + 1]
    /\ quota' = [quota EXCEPT ![p] = @ - 1]
    /\ pc' = [pc EXCEPT ![p] = "done"]
    /\ op' = [op EXCEPT ![p] = "store"]
    /\ calls' = [calls EXCEPT ![p] = <<call>>]
    /\ resp' = [resp EXCEPT ![p] = IF scanned /\ rows = {} THEN "ErrNoRows" ELSE "nil"]
    /\ failure' = [failure EXCEPT ![p] = NoFailure]
    /\ UNCHANGED <<txn, input, productRoot, idx, setup, orphaned, cancelled, delivered, enumerated, product, spawned>>

\* productVariantBridgeDeletionQuery:
\* UPDATE product_variant_bridge SET archived_on = NOW() WHERE id = $1
BridgesByID(id) == { b \in db["bridges"] : b.id = id }

\* pg.DeleteProductVariantBridge(db, id)
DeleteProductVariantBridge(p) ==
    \E id \in { b.id : b \in db["bridges"] } :
        StoreCall(p, "DeleteProductVariantBridge", "bridges", BridgesByID(id), TRUE)

\* pg.DeleteProductVariantBridgeByProductID(db, productID)
DeleteProductVariantBridgeByProductIDCall(p) ==
    \E productID \in { x.id : x \in db["products"] } :
        StoreCall(p, "DeleteProductVariantBridgeByProductID", "bridges",
                  LiveBridgesOf(p, productID), TRUE)

\* archiveProductOptionValuesForOption(tx, optionID), then tx.Commit()
archiveProductOptionValuesForOptionCall(p) ==
    \E optionID \in { o.id : o \in db["options"] } :
        StoreCall(p, "archiveProductOptionValuesForOption", "values",
                  LiveValuesOfOption(p, optionID), FALSE)

\* archiveProductOption(tx, optionID), then tx.Commit()
archiveProductOptionCall(p) ==
    \E optionID \in { o.id : o \in db["options"] } :
        StoreCall(p, "archiveProductOption", "options", LiveOptionsByID(p, optionID), FALSE)

(***************************************************************************)
(* Creation of an option on an existing root,                              *)
(* POST /v1/product/{product_root_id}/options                              *)
(* (buildProductOptionCreationHandler)                                     *)
(***************************************************************************)
\* POST arrives: productRootID := chi.URLParam(req, "product_root_id") and
\* the decoded ProductOptionCreationInput
ReceiveOptionCreation(p) ==
    /\ setup = "extend"
    /\ pc[p] \in {"idle", "done"}
    /\ quota[p] > 0
    /\ \E id \in RootDeletionTargets :
        productRoot' = [productRoot EXCEPT ![p] = [NoRoot EXCEPT !.ID = id]]
    /\ \E in \in OptionInputs :
        input' = [input EXCEPT ![p] = [sku |-> <<>>, upc |-> NoUPC, name |-> NoName, quantity_per_package |-> 0, options |-> <<in>>]]
    /\ pc' = [pc EXCEPT ![p] = "cexists"]
    /\ resp' = [resp EXCEPT ![p] = "none"]
    /\ op' = [op EXCEPT ![p] = "create_option"]
    /\ quota' = [quota EXCEPT ![p] = @ - 1]
    /\ nreq' = nreq + 1
    /\ reqid' = [reqid EXCEPT ![p] = nreq + 1]
    /\ product' = [product EXCEPT ![p] = NoProduct]
    /\ idx' = [idx EXCEPT ![p] = NoIdx]
    /\ failure' = [failure EXCEPT ![p] = NoFailure]
    /\ calls' = [calls EXCEPT ![p] = <<>>]
    /\ UNCHANGED <<db, txn, setup, orphaned, cancelled, delivered, enumerated, spawned>>

\* a lookup before the transaction: when stop holds the handler answers
\* with answer and returns, else it goes on at to
LookupStep(p, at, to, call, found, stopsWhenFound, answer) ==
    /\ pc[p] = at
    /\ \E fault \in ArchiveFaults :
        IF fault \/ (found = stopsWhenFound)
        THEN /\ pc' = [pc EXCEPT ![p] = "done"]
             /\ resp' = [resp EXCEPT ![p] = answer]
             /\ failure' = [failure EXCEPT ![p] =
                    [step |-> at,
                     cause |-> IF fault THEN "fault" ELSE IF found THEN "exists" ELSE "norows"]]
        ELSE /\ pc' = [pc EXCEPT ![p] = to]
             /\ UNCHANGED <<resp, failure>>
    /\ Called(p, <<call>>)
    /\ UNCHANGED <<db, txn, input, productRoot, idx, reqid, quota, nreq, setup, orphaned, cancelled, delivered,
                   enumerated, op, product, spawned>>

\* productRootExistenceQuery:
\* SELECT EXISTS(SELECT 1 FROM product_roots WHERE id = $1 AND archived_on IS NULL)
rootExists(id) == \E r \in db["roots"] : r.id = id /\ r.archived_on = Live

\* productRootExists, err := rowExistsInDB(db, productRootExistenceQuery, productRootID)
\* if err != nil || !productRootExists { respondThatRowDoesNotExist(...); return }
RootOfOptionExists(p) ==
    LookupStep(p, "cexists", "cdup", "rowExistsInDB", rootExists(productRoot[p].ID), FALSE,
               "not_found")

\* variant: the name is not looked up
optionNameTakenNever(name, rootID) == FALSE

\* productOptionExistenceQueryForProductByName: SELECT EXISTS(SELECT 1 FROM
\* product_options WHERE name = $1 AND product_root_id = $2 and archived_on IS NULL)
optionNameTaken(name, rootID) ==
    \E o \in db["options"] : o.name = name /\ o.product_root_id = rootID /\ o.archived_on = Live

\* optionExists, err := productOptionAlreadyExistsForProduct(db, newOptionData, productRootID)
\* if err != nil || optionExists { notifyOfInvalidRequestBody(...); return }
productOptionAlreadyExistsForProduct(p) ==
    LookupStep(p, "cdup", "cbegin", "productOptionAlreadyExistsForProduct",
               optionNameTaken(input[p].options[1].name, productRoot[p].ID), TRUE, "invalid")

\* tx, err := db.Begin()
BeginOptionCreation(p) == BeginArchive(p, "cbegin", "coption")

\* one INSERT of a handler that extends a root: a unique violation or any
\* other error is answered by tx.Rollback() and an internal error
InsertStep(p, at, to, call, t, row) ==
    /\ pc[p] = at
    /\ ~Blocked(p, t, row)
    /\ \E fault \in ArchiveFaults :
        IF fault \/ Violates(p, t, row)
        THEN RollbackArchive(p, call, IF fault THEN "fault" ELSE "unique")
        ELSE /\ db' = db
             /\ txn' = InsertInto(p, t, {row})
             /\ pc' = [pc EXCEPT ![p] = to]
             /\ Called(p, <<call>>)
             /\ UNCHANGED <<resp, failure>>
    /\ UNCHANGED <<input, reqid, quota, nreq, setup, orphaned, cancelled, delivered, enumerated, op, product, spawned>>

\* createProductOptionAndValuesInDBFromInput: client.CreateProductOption
CreateOptionOfRoot(p) ==
    LET row == [id |-> NextID("options"), name |-> input[p].options[1].name,
                product_root_id |-> productRoot[p].ID, archived_on |-> Live, req |-> reqid[p]]
        to  == IF Len(input[p].options[1].values) > 0 THEN "cvalue" ELSE "ccommit"
    IN /\ InsertStep(p, "coption", to, "CreateProductOption", "options", row)
       /\ IF pc'[p] = to
          THEN /\ productRoot' = [productRoot EXCEPT ![p].Options =
                        <<[ID |-> row.id, Name |-> row.name,
                           ProductRootID |-> row.product_root_id, Values |-> <<>>]>>]
               /\ idx' = [idx EXCEPT ![p].v = 1]
          ELSE UNCHANGED <<productRoot, idx>>

\* createProductOptionAndValuesInDBFromInput: client.CreateProductOptionValue
\* for every value of the input in turn
CreateValueOfNewOption(p) ==
    LET v   == idx[p].v
        row == [id |-> NextID("values"), product_option_id |-> productRoot[p].Options[1].ID,
                value |-> input[p].options[1].values[v], archived_on |-> Live,
                req |-> reqid[p]]
        to  == IF v < Len(input[p].options[1].values) THEN "cvalue" ELSE "ccommit"
    IN /\ pc[p] = "cvalue"
       /\ InsertStep(p, "cvalue", to, "CreateProductOptionValue", "values", row)
       /\ IF pc'[p] = to
          THEN /\ productRoot' = [productRoot EXCEPT ![p].Options[1].Values =
                        Append(@, [ID |-> row.id, ProductOptionID |-> row.product_option_id,
                                   Value |-> row.value])]
               /\ idx' = [idx EXCEPT ![p].v = v + 1]
          ELSE UNCHANGED <<productRoot, idx>>

\* err = tx.Commit(); res.WriteHeader(http.StatusCreated)
CommitOptionCreation(p) ==
    /\ CommitArchive(p, "ccommit", "done", "created")
    /\ UNCHANGED <<input, productRoot, idx, reqid, quota, nreq, setup, orphaned, cancelled, delivered, enumerated, op,
                   product, spawned>>

(***************************************************************************)
(* Creation of a value of an existing option,                              *)
(* POST /v1/product_options/{option_id}/value                              *)
(* (buildProductOptionValueCreationHandler)                                *)
(***************************************************************************)
\* POST arrives: optionID := mux.Vars(req)["option_id"] and the decoded
\* ProductOptionValueCreationInput
ReceiveValueCreation(p) ==
    /\ setup = "extend"
    /\ pc[p] \in {"idle", "done"}
    /\ quota[p] > 0
    /\ \E id \in OptionDeletionTargets :
        idx' = [idx EXCEPT ![p] = [NoIdx EXCEPT !.optionID = id]]
    /\ \E value \in ValueInputs :
        input' = [input EXCEPT ![p] =
            [sku |-> <<>>, upc |-> NoUPC, name |-> NoName, quantity_per_package |-> 0, options |-> <<[name |-> <<>>, values |-> <<value>>]>>]]
    /\ pc' = [pc EXCEPT ![p] = "vexists"]
    /\ resp' = [resp EXCEPT ![p] = "none"]
    /\ op' = [op EXCEPT ![p] = "create_value"]
    /\ quota' = [quota EXCEPT ![p] = @ - 1]
    /\ nreq' = nreq + 1
    /\ reqid' = [reqid EXCEPT ![p] = nreq + 1]
    /\ productRoot' = [productRoot EXCEPT ![p] = NoRoot]
    /\ product' = [product EXCEPT ![p] = NoProduct]
    /\ failure' = [failure EXCEPT ![p] = NoFailure]
    /\ calls' = [calls EXCEPT ![p] = <<>>]
    /\ UNCHANGED <<db, txn, setup, orphaned, cancelled, delivered, enumerated, spawned>>

\* productOptionExistsByID, err := rowExistsInDB(db, productOptionExistenceQuery, optionID)
\* if err != nil || !productOptionExistsByID { respondThatRowDoesNotExist(...); return }
OptionOfValueExists(p) ==
    LookupStep(p, "vexists", "vdup", "rowExistsInDB", optionExists(idx[p].optionID), FALSE,
               "not_found")

\* productOptionValueExistenceForOptionIDQuery: SELECT EXISTS(SELECT 1 FROM
\* product_option_values WHERE product_option_id = $1 AND value = $2 AND archived_on IS NULL)
valueTaken(optionID, value) ==
    \E v \in db["values"] :
        v.product_option_id = optionID /\ v.value = value /\ v.archived_on = Live

\* productOptionValueExistsByValue, err := optionValueAlreadyExistsForOption(...)
\* if err != nil || productOptionValueExistsByValue { notifyOfInvalidRequestBody(...); return }
optionValueAlreadyExistsForOption(p) ==
    LookupStep(p, "vdup", "vbegin", "optionValueAlreadyExistsForOption",
               valueTaken(idx[p].optionID, input[p].options[1].values[1]), TRUE, "invalid")

\* tx, err := db.Begin()
BeginValueCreation(p) == BeginArchive(p, "vbegin", "vinsert")

\* newProductOptionValueID, err := createProductOptionValueInDB(tx, newProductOptionValue)
createProductOptionValueInDB(p) ==
    LET row == [id |-> NextID("values"), product_option_id |-> idx[p].optionID,
                value |-> input[p].options[1].values[1], archived_on |-> Live,
                req |-> reqid[p]]
    IN /\ InsertStep(p, "vinsert", "vcommit", "createProductOptionValueInDB", "values", row)
       /\ UNCHANGED <<productRoot, idx>>

\* err = tx.Commit(); res.WriteHeader(http.StatusCreated)
CommitValueCreation(p) ==
    /\ CommitArchive(p, "vcommit", "done", "created")
    /\ UNCHANGED <<input, productRoot, idx, reqid, quota, nreq, setup, orphaned, cancelled, delivered, enumerated, op,
                   product, spawned>>

(***************************************************************************)
(* Update of a variant, PATCH /v1/product/{sku} (buildProductUpdateHandler) *)
(***************************************************************************)
\* the SKU field of the body: absent, or one of the SKUs
UpdateSKUs == {<<>>} \cup SKUs

\* PATCH /v1/product/{sku} arrives: sku := chi.URLParam(req, "sku") and
\* validateRequestInput(req, updatedProduct)
ReceiveUpdate(p) ==
    /\ setup = "update"
    /\ pc[p] \in {"idle", "done"}
    /\ quota[p] > 0
    /\ \E sku \in DeletionTargets :
        input' = [input EXCEPT ![p] = [sku |-> sku, upc |-> NoUPC, name |-> NoName, quantity_per_package |-> 0, options |-> <<>>]]
    /\ \E sku \in UpdateSKUs :
        product' = [product EXCEPT ![p] = [NoProduct EXCEPT !.SKU = sku]]
    /\ pc' = [pc EXCEPT ![p] = "uget"]
    /\ resp' = [resp EXCEPT ![p] = "none"]
    /\ op' = [op EXCEPT ![p] = "update_product"]
    /\ quota' = [quota EXCEPT ![p] = @ - 1]
    /\ nreq' = nreq + 1
    /\ reqid' = [reqid EXCEPT ![p] = nreq + 1]
    /\ productRoot' = [productRoot EXCEPT ![p] = NoRoot]
    /\ idx' = [idx EXCEPT ![p] = NoIdx]
    /\ failure' = [failure EXCEPT ![p] = NoFailure]
    /\ calls' = [calls EXCEPT ![p] = <<>>]
    /\ UNCHANGED <<db, txn, setup, orphaned, cancelled, delivered, enumerated, spawned>>

\* mergo.Merge(dst, src) on one field: a field of dst that holds the zero
\* value takes the value of src, any other field stays
Merge(dst, src, zero) == IF dst = zero THEN src ELSE dst

\* existingProduct, err := client.GetProductBySKU(db, sku), then
\* mergo.Merge(updatedProduct, existingProduct)
GetProductBySKUAndMerge(p) ==
    /\ pc[p] = "uget"
    /\ \E fault \in ArchiveFaults :
        IF fault
        THEN /\ pc' = [pc EXCEPT ![p] = "done"]
             /\ resp' = [resp EXCEPT ![p] = "internal"]
             /\ failure' = [failure EXCEPT ![p] = [step |-> "get", cause |-> "fault"]]
             /\ UNCHANGED product
        ELSE IF LiveProductsBySKU(input[p].sku) = {}
        THEN /\ pc' = [pc EXCEPT ![p] = "done"]
             /\ resp' = [resp EXCEPT ![p] = "not_found"]
             /\ failure' = [failure EXCEPT ![p] = [step |-> "get", cause |-> "norows"]]
             /\ UNCHANGED product
        ELSE /\ LET x == CHOOSE x \in LiveProductsBySKU(input[p].sku) : TRUE IN
                product' = [product EXCEPT ![p] =
                                [ID |-> Merge(@.ID, x.id, 0), SKU |-> Merge(@.SKU, x.sku, <<>>),
                                 ArchivedOn |-> Merge(@.ArchivedOn, x.archived_on, 0)]]
             /\ pc' = [pc EXCEPT ![p] = "uvalidate"]
             /\ UNCHANGED <<resp, failure>>
    /\ Called(p, <<"GetProductBySKU">>)
    /\ UNCHANGED <<db, txn, input, productRoot, idx, reqid, quota, nreq, setup, orphaned, cancelled, delivered,
                   enumerated, op, spawned>>

\* if !restrictedStringIsValid(updatedProduct.SKU) { notifyOfInvalidRequestBody(...); return }
ValidateUpdatedSKU(p) ==
    /\ pc[p] = "uvalidate"
    /\ IF ~restrictedStringIsValid(product[p].SKU)
       THEN /\ pc' = [pc EXCEPT ![p] = "done"]
            /\ resp' = [resp EXCEPT ![p] = "invalid_sku"]
            /\ failure' = [failure EXCEPT ![p] = [step |-> "validate", cause |-> "sku"]]
       ELSE /\ pc' = [pc EXCEPT ![p] = "uupdate"]
            /\ UNCHANGED <<resp, failure>>
    /\ UNCHANGED <<db, txn, input, productRoot, idx, reqid, quota, nreq, setup, orphaned, cancelled, delivered,
                   enumerated, op, product, spawned, calls>>

\* UPDATE products SET ..., sku = $5, upc = $6, updated_on = NOW() WHERE id = $7:
\* the row of the product with the fields of updated
UpdatedRows(updated) ==
    { [x EXCEPT !.sku = updated.SKU] : x \in { x \in db["products"] : x.id = updated.ID } }

\* updatedTime, err := client.UpdateProduct(db, updatedProduct), a statement
\* on the database handle
UpdateProduct(p) ==
    /\ pc[p] = "uupdate"
    /\ LET rows == UpdatedRows(product[p]) IN
       \E fault \in ArchiveFaults :
           IF \/ fault
              \/ \E r \in rows : \E x \in db["products"] :
                    x.id # r.id /\ Conflicts("products", r, x)
           THEN /\ pc' = [pc EXCEPT ![p] = "done"]
                /\ resp' = [resp EXCEPT ![p] = "internal"]
                /\ failure' = [failure EXCEPT ![p] =
                        [step |-> "UpdateProduct", cause |-> IF fault THEN "fault" ELSE "unique"]]
                /\ db' = db
           ELSE /\ pc' = [pc EXCEPT ![p] = "uwebhooks"]
                /\ db' = [db EXCEPT !["products"] = Overlay(@, rows)]
                /\ UNCHANGED <<resp, failure>>
    /\ Called(p, <<"UpdateProduct">>)
    /\ UNCHANGED <<txn, input, productRoot, idx, reqid, quota, nreq, setup, orphaned, cancelled, delivered,
                   enumerated, op, product, spawned>>

\* client.GetWebhooksByEventType(db, ProductUpdatedWebhookEvent), one
\* goroutine per webhook, then 200 and the encoded product
NotifyUpdate(p) ==
    /\ pc[p] = "uwebhooks"
    /\ \E outcome \in {"rows", "norows", "fault"} :
        /\ pc' = [pc EXCEPT ![p] = "done"]
        /\ IF outcome = "fault"
           THEN /\ resp' = [resp EXCEPT ![p] = "internal"]
                /\ failure' = [failure EXCEPT ![p] = [step |-> "webhooks", cause |-> "fault"]]
                /\ UNCHANGED spawned
           ELSE /\ resp' = [resp EXCEPT ![p] = "updated"]
                /\ spawned' = spawned \cup
                        (IF outcome = "rows"
                         THEN { <<wh, reqid[p]>> : wh \in RegisteredWebhooks } ELSE {})
                /\ UNCHANGED failure
    /\ Called(p, <<"GetWebhooksByEventType">>)
    /\ UNCHANGED <<db, txn, input, productRoot, idx, reqid, quota, nreq, setup, orphaned, cancelled, delivered,
                   enumerated, op, product>>

(***************************************************************************)
(* Cancellation of a request                                               *)
(***************************************************************************)
\* the client goes away, or the deadline of the request passes, while the
\* creation handler holds an open transaction: req.Context() is cancelled.
\* The handler is not told: it opened the transaction with db.Begin() and
\* calls the store without a context, and reads req.Context() nowhere
CancelRequest(p) ==
    /\ setup = "cancel"
    /\ op[p] = "create"
    /\ txn[p].open
    /\ reqid[p] \notin cancelled
    /\ cancelled' = cancelled \cup {reqid[p]}
    /\ UNCHANGED <<db, txn, pc, input, productRoot, idx, resp, failure, reqid, quota, nreq,
                   setup, spawned, calls, op, product, enumerated, orphaned, delivered>>

\* go webhookExecutor.CallWebhook(wh, productRoot, db, client): the
\* goroutine started for one webhook returns, whatever the handler that
\* started it is doing by then
CallWebhook(d) ==
    /\ setup = "notify"
    /\ d \in spawned \ delivered
    /\ delivered' = delivered \cup {d}
    /\ UNCHANGED <<db, txn, pc, input, productRoot, idx, resp, failure, reqid, quota, nreq,
                   setup, spawned, calls, op, product, enumerated, orphaned, cancelled>>

(***************************************************************************)
(* Specifications                                                          *)
(***************************************************************************)
\* the enumerator has not been handed a list
NotEnumerated == [options |-> <<>>, ran |-> FALSE, panicked |-> FALSE, output |-> <<>>]

InitWith(s, q) ==
    /\ db = EmptyTables
    /\ txn = [p \in Procs |-> NoTx]
    /\ pc = [p \in Procs |-> "idle"]
    /\ input = [p \in Procs |-> [sku |-> <<>>, upc |-> NoUPC, name |-> NoName, quantity_per_package |-> 0, options |-> <<>>]]
    /\ productRoot = [p \in Procs |-> NoRoot]
    /\ idx = [p \in Procs |-> NoIdx]
    /\ resp = [p \in Procs |-> "none"]
    /\ failure = [p \in Procs |-> NoFailure]
    /\ reqid = [p \in Procs |-> 0]
    /\ quota = q
    /\ nreq = 0
    /\ setup = s
    /\ orphaned = {}
    /\ cancelled = {}
    /\ delivered = {}
    /\ spawned = {}
    /\ calls = [p \in Procs |-> <<>>]
    /\ op = [p \in Procs |-> "create"]
    /\ product = [p \in Procs |-> NoProduct]

\* one worker that serves the requests one after the other
Init ==
    /\ InitWith("serial", [p \in Procs |-> IF p = 1 THEN MaxRequests ELSE 0])
    /\ enumerated = NotEnumerated

\* two workers that serve one request each, side by side
InitConc == InitWith("concurrent", [p \in Procs |-> 1]) /\ enumerated = NotEnumerated

Next ==
    \E p \in Procs :
        \/ Receive(p)
        \/ PreCheck(p)
        \/ Begin(p)
        \/ CreateProductRoot(p)
        \/ CreateProductOption(p)
        \/ CreateProductOptionValue(p)
        \/ CreateBaseProduct(p)
        \/ CreateVariantProduct(p)
        \/ CreateBridges(p)
        \/ Commit(p)
        \/ NotifyAndRespond(p)

\* two workers that serve one request each, side by side, for any two SKUs
InitPair == InitWith("pair", [p \in Procs |-> 1]) /\ enumerated = NotEnumerated

\* one worker that is sent one payload whose option list was not vetted
InitLoose ==
    /\ InitWith("loose", [p \in Procs |-> IF p = 1 THEN 1 ELSE 0])
    /\ enumerated = NotEnumerated

\* one worker that is sent payloads for the same SKU several times over
InitRepeat ==
    /\ InitWith("repeat", [p \in Procs |-> IF p = 1 THEN MaxRepeats ELSE 0])
    /\ enumerated = NotEnumerated

\* per option, the name and the number of values of a list handed to the
\* enumerator
EnumShapes ==
    UNION { [1..n -> (1..Len(OptionNames)) \X (0..LooseMaxValues)] : n \in 0..LooseMaxOptions }

\* the number of values of the options before option i
RECURSIVE ValuesBefore(_, _)
ValuesBefore(sh, i) == IF i <= 1 THEN 0 ELSE sh[i - 1][2] + ValuesBefore(sh, i - 1)

\* a []models.ProductOption of that shape, with ids in creation order
EnumOptions(sh) ==
    [i \in 1..Len(sh) |->
        [ID |-> i, Name |-> OptionNames[sh[i][1]], ProductRootID |-> 1,
         Values |-> [k \in 1..sh[i][2] |->
                        [ID |-> ValuesBefore(sh, i) + k, ProductOptionID |-> i,
                         Value |-> ValuePool[sh[i][1]][k]]]]]

\* the enumerator on its own: any option list, the empty one included
InitEnum ==
    /\ InitWith("enum", [p \in Procs |-> 0])
    /\ \E sh \in EnumShapes : enumerated = [NotEnumerated EXCEPT !.options = EnumOptions(sh)]

\* a call of generateCartesianProductForOptions(inputOptions)
Enumerate ==
    /\ setup = "enum"
    /\ ~enumerated.ran
    /\ LET cart == generateCartesianProductForOptions(enumerated.options) IN
       enumerated' = [enumerated EXCEPT !.ran = TRUE, !.panicked = cart.panicked,
                                        !.output = cart.output]
    /\ UNCHANGED <<db, txn, pc, input, productRoot, idx, resp, failure, reqid, quota, nreq,
                   setup, orphaned, cancelled, delivered, spawned, calls, op, product>>

NextEnum == Enumerate

\* option values that differ in letter case only, or hold the separator
TrickyValues == { <<"S">>, <<"s">>, <<"a">>, <<"a","_","b">>, <<"b">>, <<"b","_","c">>, <<"c">> }

\* the value lists of one option: one or two values, no value twice
TrickyValueLists ==
    { <<v>> : v \in TrickyValues } \cup
    { l \in { <<v, w>> : v \in TrickyValues, w \in TrickyValues } : l[1] # l[2] }

\* a []models.ProductOption of one or two options with distinct names and
\* the given value lists, with ids in creation order
TrickyOptions(lists) ==
    [i \in 1..Len(lists) |->
        [ID |-> i, Name |-> OptionNames[i], ProductRootID |-> 1,
         Values |-> [k \in 1..Len(lists[i]) |->
                        [ID |-> (IF i = 1 THEN 0 ELSE Len(lists[1])) + k, ProductOptionID |-> i,
                         Value |-> lists[i][k]]]]]

\* the enumerator on its own, handed names and values that passed the
\* duplicate checks
InitSuffix ==
    /\ InitWith("enum", [p \in Procs |-> 0])
    /\ \E lists \in { <<l>> : l \in TrickyValueLists } \cup (TrickyValueLists \X TrickyValueLists) :
            enumerated = [NotEnumerated EXCEPT !.options = TrickyOptions(lists)]

\* one worker that creates a catalogue entry and archives variants and roots
InitArchive ==
    /\ InitWith("archive", [p \in Procs |-> IF p = 1 THEN MaxArchiveRequests ELSE 0])
    /\ enumerated = NotEnumerated

NextArchive ==
    \E p \in Procs :
        \/ Receive(p)
        \/ PreCheck(p)
        \/ Begin(p)
        \/ CreateProductRoot(p)
        \/ CreateProductOption(p)
        \/ CreateProductOptionValue(p)
        \/ CreateBaseProduct(p)
        \/ CreateVariantProduct(p)
        \/ CreateBridges(p)
        \/ Commit(p)
        \/ NotifyAndRespond(p)
        \/ ReceiveDeletion(p)
        \/ GetProductBySKU(p)
        \/ BeginDeletion(p)
        \/ DeleteProductVariantBridgeByProductID(p)
        \/ DeleteProduct(p)
        \/ CommitDeletion(p)
        \/ NotifyDeletion(p)
        \/ ReceiveRootDeletion(p)
        \/ ProductRootExists(p)
        \/ BeginRootDeletion(p)
        \/ ArchiveRootBridges(p)
        \/ ArchiveRootProducts(p)
        \/ ArchiveRootValues(p)
        \/ ArchiveRootOptions(p)
        \/ DeleteProductRoot(p)
        \/ CommitRootDeletion(p)
        \/ ReceiveOptionDeletion(p)
        \/ ProductOptionExists(p)
        \/ BeginOptionDeletion(p)
        \/ archiveProductOptionValuesForOption(p)
        \/ archiveProductOption(p)
        \/ CommitOptionDeletion(p)

\* one worker that creates a catalogue entry and calls the archive
\* operations of the store
InitStore ==
    /\ InitWith("store", [p \in Procs |-> IF p = 1 THEN 1 + MaxStoreCalls ELSE 0])
    /\ enumerated = NotEnumerated

NextStore ==
    \E p \in Procs :
        \/ Receive(p)
        \/ PreCheck(p)
        \/ Begin(p)
        \/ CreateProductRoot(p)
        \/ CreateProductOption(p)
        \/ CreateProductOptionValue(p)
        \/ CreateBaseProduct(p)
        \/ CreateVariantProduct(p)
        \/ CreateBridges(p)
        \/ Commit(p)
        \/ NotifyAndRespond(p)
        \/ DeleteProductVariantBridge(p)
        \/ DeleteProductVariantBridgeByProductIDCall(p)
        \/ archiveProductOptionValuesForOptionCall(p)
        \/ archiveProductOptionCall(p)

\* one worker that creates catalogue entries, adds options and values to
\* them and archives options
InitExtend ==
    /\ InitWith("extend", [p \in Procs |-> IF p = 1 THEN MaxExtendRequests ELSE 0])
    /\ enumerated = NotEnumerated

NextExtend ==
    \E p \in Procs :
        \/ Receive(p)
        \/ PreCheck(p)
        \/ Begin(p)
        \/ CreateProductRoot(p)
        \/ CreateProductOption(p)
        \/ CreateProductOptionValue(p)
        \/ CreateBaseProduct(p)
        \/ CreateVariantProduct(p)
        \/ CreateBridges(p)
        \/ Commit(p)
        \/ NotifyAndRespond(p)
        \/ ReceiveOptionCreation(p)
        \/ RootOfOptionExists(p)
        \/ productOptionAlreadyExistsForProduct(p)
        \/ BeginOptionCreation(p)
        \/ CreateOptionOfRoot(p)
        \/ CreateValueOfNewOption(p)
        \/ CommitOptionCreation(p)
        \/ ReceiveValueCreation(p)
        \/ OptionOfValueExists(p)
        \/ optionValueAlreadyExistsForOption(p)
        \/ BeginValueCreation(p)
        \/ createProductOptionValueInDB(p)
        \/ CommitValueCreation(p)
        \/ ReceiveOptionDeletion(p)
        \/ ProductOptionExists(p)
        \/ BeginOptionDeletion(p)
        \/ archiveProductOptionValuesForOption(p)
        \/ archiveProductOption(p)
        \/ CommitOptionDeletion(p)

\* one worker that creates a catalogue entry and updates its variants
InitUpdate ==
    /\ InitWith("update", [p \in Procs |-> IF p = 1 THEN MaxUpdateRequests ELSE 0])
    /\ enumerated = NotEnumerated

NextUpdate ==
    \E p \in Procs :
        \/ Receive(p)
        \/ PreCheck(p)
        \/ Begin(p)
        \/ CreateProductRoot(p)
        \/ CreateProductOption(p)
        \/ CreateProductOptionValue(p)
        \/ CreateBaseProduct(p)
        \/ CreateVariantProduct(p)
        \/ CreateBridges(p)
        \/ Commit(p)
        \/ NotifyAndRespond(p)
        \/ ReceiveUpdate(p)
        \/ GetProductBySKUAndMerge(p)
        \/ ValidateUpdatedSKU(p)
        \/ UpdateProduct(p)
        \/ NotifyUpdate(p)

\* one worker whose requests can be cancelled while they are served
InitCancel ==
    /\ InitWith("cancel", [p \in Procs |-> IF p = 1 THEN MaxRepeats ELSE 0])
    /\ enumerated = NotEnumerated

NextCancel ==
    \E p \in Procs :
        \/ Receive(p)
        \/ PreCheck(p)
        \/ Begin(p)
        \/ CreateProductRoot(p)
        \/ CreateProductOption(p)
        \/ CreateProductOptionValue(p)
        \/ CreateBaseProduct(p)
        \/ CreateVariantProduct(p)
        \/ CreateBridges(p)
        \/ Commit(p)
        \/ NotifyAndRespond(p)
        \/ CancelRequest(p)

\* one worker whose webhook goroutines run on their own
InitNotify ==
    /\ InitWith("notify", [p \in Procs |-> IF p = 1 THEN MaxRepeats ELSE 0])
    /\ enumerated = NotEnumerated

NextNotify ==
    \/ \E p \in Procs :
        \/ Receive(p)
        \/ PreCheck(p)
        \/ Begin(p)
        \/ CreateProductRoot(p)
        \/ CreateProductOption(p)
        \/ CreateProductOptionValue(p)
        \/ CreateBaseProduct(p)
        \/ CreateVariantProduct(p)
        \/ CreateBridges(p)
        \/ Commit(p)
        \/ NotifyAndRespond(p)
    \/ \E d \in spawned : CallWebhook(d)

Spec == Init /\ [][Next]_vars

SpecNotify == InitNotify /\ [][NextNotify]_vars

SpecPair == InitPair /\ [][Next]_vars

SpecSuffix == InitSuffix /\ [][NextEnum]_vars

SpecCancel == InitCancel /\ [][NextCancel]_vars

SpecUpdate == InitUpdate /\ [][NextUpdate]_vars

SpecExtend == InitExtend /\ [][NextExtend]_vars

SpecStore == InitStore /\ [][NextStore]_vars

SpecArchive == InitArchive /\ [][NextArchive]_vars

SpecEnum == InitEnum /\ [][NextEnum]_vars

SpecLoose == InitLoose /\ [][Next]_vars

SpecRepeat == InitRepeat /\ [][Next]_vars

SpecConc == InitConc /\ [][Next]_vars

(***************************************************************************)
(* Properties                                                              *)
(***************************************************************************)
\* committed rows of table t written by request rq
RowsOf(t, rq) == { x \in db[t] : x.req = rq }

NoRowsOf(rq) == \A t \in Tables : RowsOf(t, rq) = {}

\* the store calls that create rows
CreateSteps == {"root", "option", "value", "product", "bridges"}

\* the transaction of the current request of p has been committed
CommittedReq(p) ==
    \/ pc[p] = "webhooks"
    \/ pc[p] = "done" /\ (resp[p] = "created" \/ failure[p].step = "webhooks")

\* v1..vn of the payload of p
ValueCounts(p) == [i \in 1..Len(input[p].options) |-> Len(input[p].options[i].values)]

\* C1: when a create call (root, option, value, variant, bridges) fails, the
\* request ends with an internal error, its transaction is closed, and no
\* row written by the request is among the committed rows.
C1_AllOrNothing ==
    \A p \in Procs :
        (pc[p] = "done" /\ failure[p].step \in CreateSteps) =>
            /\ resp[p] = "internal"
            /\ txn[p] = NoTx
            /\ NoRowsOf(reqid[p])

\* a request that failed at the bridge rows of its second or later variant
C1_Witness ==
    \E p \in Procs :
        /\ pc[p] = "done"
        /\ failure[p] = [step |-> "bridges", cause |-> "fault"]
        /\ idx[p].c >= 2

\* C2: a committed request with n >= 1 options of v1..vn values has written
\* exactly v1*...*vn products and n*(v1*...*vn) bridge rows.
C2_VariantAndBridgeCounts ==
    \A p \in Procs :
        (CommittedReq(p) /\ Len(input[p].options) >= 1) =>
            LET n  == Len(input[p].options)
                pi == ProductOfCounts(ValueCounts(p))
            IN /\ Cardinality(RowsOf("products", reqid[p])) = pi
               /\ Cardinality(RowsOf("bridges", reqid[p])) = n * pi

\* a committed request with two options of two or more values each
C2_Witness ==
    \E p \in Procs :
        /\ CommittedReq(p)
        /\ Len(input[p].options) = 2
        /\ \A i \in 1..2 : Len(input[p].options[i].values) >= 2

\* the options of p are all in memory, values included
OptionsComplete(p) ==
    /\ Len(input[p].options) >= 1
    /\ Len(productRoot[p].Options) = Len(input[p].options)
    /\ \A i \in 1..Len(input[p].options) :
            Len(productRoot[p].Options[i].Values) = Len(input[p].options[i].values)

\* the position of option j in combination number k (from 0) of an odometer
\* whose wheels have lens[1..n] positions, the last wheel turning fastest
OdometerDigit(k, j, lens) == (k \div ProductOfCounts(SubSeq(lens, j + 1, Len(lens)))) % lens[j]

\* C3: for a non-empty option list with non-empty value lists the enumerator
\* does not fail and returns v1*...*vn combinations, the k-th of which selects
\* from every option, in option order, the value at the odometer position of
\* k, giving its id and the value itself.
C3_OdometerOrder ==
    \A p \in Procs :
        OptionsComplete(p) =>
            LET options == productRoot[p].Options
                lens    == [j \in 1..Len(options) |-> Len(options[j].Values)]
                cart    == generateCartesianProductForOptions(options)
            IN /\ ~cart.panicked
               /\ Len(cart.output) = ProductOfCounts(lens)
               /\ \A k \in 1..Len(cart.output) :
                    /\ Len(cart.output[k].IDs) = Len(options)
                    /\ Len(cart.output[k].OriginalValues) = Len(options)
                    /\ \A j \in 1..Len(options) :
                        LET v == options[j].Values[OdometerDigit(k - 1, j, lens) + 1] IN
                        /\ cart.output[k].IDs[j] = v.ID
                        /\ cart.output[k].OriginalValues[j] = v

\* the enumerator is about to name the second variant of a two-by-two payload
C3_Witness ==
    \E p \in Procs :
        /\ pc[p] = "variant"
        /\ idx[p].c >= 2
        /\ OptionsComplete(p)
        /\ Len(productRoot[p].Options) = 2
        /\ \A j \in 1..2 : Len(productRoot[p].Options[j].Values) >= 2

\* the committed value rows that product x is bridged to under the option
\* called name
BridgedValues(x, name) ==
    { v \in db["values"] :
        /\ \E b \in db["bridges"] : b.product_id = x.id /\ b.product_option_value_id = v.id
        /\ \E o \in db["options"] : o.id = v.product_option_id /\ o.name = name }

\* x is bridged to exactly one value of every option of the payload of p
WellBridged(p, x) ==
    \A i \in 1..Len(input[p].options) :
        Cardinality(BridgedValues(x, input[p].options[i].name)) = 1

\* the values selected for x, in the order of the options of the payload
SelectedValues(p, x) ==
    [i \in 1..Len(input[p].options) |->
        (CHOOSE v \in BridgedValues(x, input[p].options[i].name) : TRUE).value]

\* prefix, then "_" and the lower-cased value for every value in turn
RECURSIVE WithSuffixes(_, _)
WithSuffixes(acc, vals) ==
    IF Len(vals) = 0 THEN acc
    ELSE WithSuffixes(acc \o <<"_">> \o ToLower(Head(vals)), Tail(vals))

\* "Name: Value" for every option in turn, with ", " between two of them
RECURSIVE PairsSummary(_, _)
PairsSummary(options, vals) ==
    IF Len(vals) = 0 THEN <<>>
    ELSE Head(options).name \o <<":", " ">> \o Head(vals)
         \o (IF Len(vals) > 1 THEN <<",", " ">> \o PairsSummary(Tail(options), Tail(vals))
             ELSE <<>>)

\* C4: every product row committed by a request with options has the SKU
\* <root sku_prefix> "_" <lower-cased selected values joined by "_">, the
\* values taken in the order of the options of the payload.
C4_VariantSKU ==
    \A p \in Procs :
        (CommittedReq(p) /\ Len(input[p].options) >= 1) =>
            \A x \in RowsOf("products", reqid[p]) :
                /\ WellBridged(p, x)
                /\ \E r \in db["roots"] :
                    /\ r.id = x.product_root_id
                    /\ x.sku = WithSuffixes(r.sku_prefix, SelectedValues(p, x))

\* a committed variant of two options whose SKU differs from its values
\* written as given, that is, lower-casing had something to do
C4_Witness ==
    \E p \in Procs :
        /\ CommittedReq(p)
        /\ Len(input[p].options) = 2
        /\ \E x \in RowsOf("products", reqid[p]) :
            /\ WellBridged(p, x)
            /\ x.sku # input[p].sku \o <<"_">> \o Join(SelectedValues(p, x), <<"_">>)

\* C5: every product row committed by a request with options has the option
\* summary "Name: Value, Name: Value, ...", one pair per option in the order
\* of the payload, the value spelled as it was given.
C5_VariantSummary ==
    \A p \in Procs :
        (CommittedReq(p) /\ Len(input[p].options) >= 1) =>
            \A x \in RowsOf("products", reqid[p]) :
                /\ WellBridged(p, x)
                /\ x.option_summary = PairsSummary(input[p].options, SelectedValues(p, x))

\* a committed variant of two options with an upper-case letter in a value
C5_Witness ==
    \E p \in Procs :
        /\ CommittedReq(p)
        /\ Len(input[p].options) = 2
        /\ \E x \in RowsOf("products", reqid[p]) :
            /\ WellBridged(p, x)
            /\ \E i \in 1..2 : ToLower(SelectedValues(p, x)[i]) # SelectedValues(p, x)[i]

\* C6: a committed request without options has written exactly one product,
\* whose SKU is the payload's SKU (the root's sku_prefix) with nothing
\* appended, and no bridge, option or value row.
C6_NoOptions ==
    \A p \in Procs :
        (CommittedReq(p) /\ Len(input[p].options) = 0) =>
            /\ Cardinality(RowsOf("products", reqid[p])) = 1
            /\ \A x \in RowsOf("products", reqid[p]) :
                \E r \in RowsOf("roots", reqid[p]) :
                    r.id = x.product_root_id /\ x.sku = r.sku_prefix /\ x.sku = input[p].sku
            /\ RowsOf("bridges", reqid[p]) = {}
            /\ RowsOf("options", reqid[p]) = {}
            /\ RowsOf("values", reqid[p]) = {}

\* a request without options that was answered with 201
C6_Witness ==
    \E p \in Procs :
        /\ pc[p] = "done"
        /\ resp[p] = "created"
        /\ Len(input[p].options) = 0
        /\ RowsOf("products", reqid[p]) # {}

\* C7: of two requests for the same SKU prefix that two workers have both
\* finished, however their store calls were interleaved, exactly one was
\* answered with 201 and the other left no committed row.
C7_ExactlyOneSucceeds ==
    \A p \in Procs : \A q \in Procs \ {p} :
        (pc[p] = "done" /\ pc[q] = "done" /\ input[p].sku = input[q].sku) =>
            \/ resp[p] = "created" /\ resp[q] # "created" /\ NoRowsOf(reqid[q])
            \/ resp[q] = "created" /\ resp[p] # "created" /\ NoRowsOf(reqid[p])

\* both requests passed the pre-check and the loser was stopped by the
\* unique constraint on its root row
C7_Witness ==
    \E p \in Procs : \E q \in Procs \ {p} :
        /\ pc[p] = "done" /\ pc[q] = "done"
        /\ input[p].sku = input[q].sku
        /\ resp[p] = "created"
        /\ failure[q] = [step |-> "root", cause |-> "unique"]

\* C8: a request stopped by a unique violation inside its transaction is
\* answered as a conflict, the way the pre-check answers for a taken prefix.
C8_ViolationIsConflict ==
    \A p \in Procs :
        (pc[p] = "done" /\ failure[p].cause = "unique") => resp[p] = "already_exists"

\* every row named by the graph p holds in memory is among the committed rows
GraphVisible(p) ==
    /\ \E r \in db["roots"] : r.id = productRoot[p].ID /\ r.req = reqid[p]
    /\ \A i \in 1..Len(productRoot[p].Options) :
        /\ \E o \in db["options"] : o.id = productRoot[p].Options[i].ID
        /\ \A k \in 1..Len(productRoot[p].Options[i].Values) :
            \E v \in db["values"] : v.id = productRoot[p].Options[i].Values[k].ID
    /\ \A k \in 1..Len(productRoot[p].Products) :
        \E x \in db["products"] : x.id = productRoot[p].Products[k].ID

\* C9: a finished request was either answered with 201 and its whole graph
\* is committed, or answered with an error and none of its rows is committed.
C9_NoPartialSuccess ==
    \A p \in Procs :
        pc[p] = "done" =>
            \/ resp[p] = "created" /\ GraphVisible(p)
            \/ resp[p] # "created" /\ NoRowsOf(reqid[p])

\* C10: when db.Begin() or tx.Commit() returns an error, the request is
\* answered with an internal error and none of its rows is committed.
C10_BeginOrCommitFails ==
    \A p \in Procs :
        (pc[p] = "done" /\ failure[p].step \in {"begin", "commit"}) =>
            /\ resp[p] = "internal"
            /\ txn[p] = NoTx
            /\ NoRowsOf(reqid[p])

\* the commit failed after the root, its options and its variants were written
C10_Witness ==
    \E p \in Procs :
        /\ pc[p] = "done"
        /\ failure[p].step = "commit"
        /\ Len(productRoot[p].Options) >= 1
        /\ Len(productRoot[p].Products) >= 2

\* a string with a character outside [a-zA-Z_-]
HasInvalidCharacter(s) == \E i \in 1..Len(s) : s[i] \notin ValidChars

\* C11: a request whose SKU has a character outside the restricted set is
\* answered with a validation error at once: it makes no store call (no
\* uniqueness check, no Begin), holds no transaction and commits no row.
C11_InvalidSKURejected ==
    \A p \in Procs :
        (pc[p] # "idle" /\ HasInvalidCharacter(input[p].sku)) =>
            /\ pc[p] = "done"
            /\ resp[p] = "invalid_sku"
            /\ calls[p] = <<>>
            /\ txn[p] = NoTx
            /\ NoRowsOf(reqid[p])

\* a request with the SKU "m!" has been answered
C11_Witness ==
    \E p \in Procs :
        /\ pc[p] = "done"
        /\ resp[p] = "invalid_sku"
        /\ HasInvalidCharacter(input[p].sku)

\* a root committed by an earlier request holds the SKU prefix p asks for
PrefixTaken(p) ==
    \E r \in db["roots"] : r.sku_prefix = input[p].sku /\ r.req < reqid[p]

\* C12: a request whose SKU prefix is held by an existing root is, once its
\* uniqueness check has run, finished and answered "already exists"; the
\* check is the only store call it made, it opened no transaction and none
\* of its rows is committed. A request that repeats a committed one is such
\* a request.
C12_TakenPrefixIsConflict ==
    \A p \in Procs :
        (PrefixTaken(p) /\ pc[p] \notin {"idle", "precheck"}) =>
            /\ pc[p] = "done"
            /\ resp[p] = "already_exists"
            /\ calls[p] = <<"ProductRootWithSKUPrefixExists">>
            /\ txn[p] = NoTx
            /\ NoRowsOf(reqid[p])

\* the second request for a prefix was turned away because the root exists
C12_Witness ==
    \E p \in Procs :
        /\ PrefixTaken(p)
        /\ pc[p] = "done"
        /\ failure[p] = [step |-> "precheck", cause |-> "exists"]

\* a payload with an option that has no values, at any position
HasEmptyOption(in) == \E i \in 1..Len(in.options) : Len(in.options[i].values) = 0

\* C13: a request whose payload has an option without values never opens a
\* transaction and never has the enumerator fail on it, and when it is
\* finished it was answered with an invalid-request error.
C13_EmptyOptionRejected ==
    \A p \in Procs :
        (pc[p] # "idle" /\ HasEmptyOption(input[p])) =>
            /\ \A j \in 1..Len(calls[p]) : calls[p][j] # "Begin"
            /\ pc[p] # "panicked"
            /\ pc[p] = "done" => resp[p] \notin {"created", "internal", "none"}

\* C14: handed an empty option list, the enumerator returns, and returns an
\* empty sequence of combinations.
C14_EmptyListGivesEmpty ==
    (enumerated.ran /\ Len(enumerated.options) = 0) =>
        /\ ~enumerated.panicked
        /\ enumerated.output = <<>>

\* option o of the payload has the name of an earlier option of the payload
RepeatedOption(in, o) == \E i \in 1..(o - 1) : in.options[i].name = in.options[o].name

\* how often the store call named name was made for the current request of p
CallCount(p, name) == Cardinality({ j \in 1..Len(calls[p]) : calls[p][j] = name })

\* C15: a request that was stopped at an option whose name an earlier option
\* of its payload has, no store call having failed for a reason of its own,
\* was answered "already exists", never asked the store to create the
\* row of that option, and was rolled back.
C15_RepeatedOptionNameIsConflict ==
    \A p \in Procs : \A o \in 1..Len(input[p].options) :
        (/\ RepeatedOption(input[p], o)
         /\ pc[p] = "done"
         /\ idx[p].o = o
         /\ failure[p].cause # "fault") =>
            /\ resp[p] = "already_exists"
            /\ CallCount(p, "CreateProductOption") < o
            /\ txn[p] = NoTx
            /\ NoRowsOf(reqid[p])

\* C16: a request whose uniqueness check could not be answered by the store
\* is answered with an internal error, not with "already exists".
C16_StoreErrorNotReclassified ==
    \A p \in Procs :
        (pc[p] = "done" /\ failure[p] = [step |-> "precheck", cause |-> "fault"]) =>
            resp[p] = "internal"

\* the positions of the store call named name among the calls of p
CallsAt(p, name) == { j \in 1..Len(calls[p]) : calls[p][j] = name }

\* every call named later follows a call named earlier
CalledAfter(p, earlier, later) ==
    \A j \in CallsAt(p, later) : \E i \in CallsAt(p, earlier) : i < j

\* the calls named name were made inside the one transaction of the request
InsideOneTransaction(p, name) ==
    /\ Cardinality(CallsAt(p, "Begin")) <= 1
    /\ CalledAfter(p, "Begin", name)
    /\ CalledAfter(p, name, "Commit")

\* the rows of tables that hang on root id: its options, their values, its
\* variants and their bridge rows
OptionsUnder(rows, id) == { o \in rows["options"] : o.product_root_id = id }
ValuesUnder(rows, id) ==
    { v \in rows["values"] : \E o \in OptionsUnder(rows, id) : v.product_option_id = o.id }
ProductsUnder(rows, id) == { x \in rows["products"] : x.product_root_id = id }
BridgesUnder(rows, id) ==
    { b \in rows["bridges"] : \E x \in ProductsUnder(rows, id) : b.product_id = x.id }
DependentsUnder(rows, id) ==
    OptionsUnder(rows, id) \cup ValuesUnder(rows, id)
        \cup ProductsUnder(rows, id) \cup BridgesUnder(rows, id)

\* the five archive writes of a root archive
RootArchiveCalls == <<"ArchiveBridgesOfRoot", "ArchiveProductsOfRoot",
                      "ArchiveOptionValuesOfRoot", "ArchiveOptionsOfRoot", "DeleteProductRoot">>

\* the root archive of p was answered with success
RootArchived(p) == op[p] = "archive_root" /\ pc[p] = "done" /\ resp[p] = "archived"

\* C17: once a root archive has succeeded, the root, its options, their
\* values, its variants and their bridge rows are all archived, the rows
\* that were still live by this request, and all five archive writes were
\* made inside one transaction.
C17_RootArchiveCascades ==
    \A p \in Procs :
        RootArchived(p) =>
            /\ \A r \in db["roots"] : r.id = productRoot[p].ID => r.archived_on = Now(p)
            /\ \A x \in DependentsUnder(db, productRoot[p].ID) :
                    x.archived_on # Live /\ x.archived_on <= Now(p)
            /\ \A k \in 1..Len(RootArchiveCalls) :
                    /\ CallsAt(p, RootArchiveCalls[k]) # {}
                    /\ InsideOneTransaction(p, RootArchiveCalls[k])

\* a root with an option, values, variants and bridge rows was archived, one
\* of its variants having been archived by an earlier request
C17_Witness ==
    \E p \in Procs :
        /\ RootArchived(p)
        /\ OptionsUnder(db, productRoot[p].ID) # {}
        /\ \E b \in BridgesUnder(db, productRoot[p].ID) : b.archived_on = Now(p)
        /\ \E x \in ProductsUnder(db, productRoot[p].ID) : x.archived_on < Now(p)
        /\ \E x \in ProductsUnder(db, productRoot[p].ID) : x.archived_on = Now(p)

\* the tables as the transaction of p sees them
View(p) == [t \in Tables |-> Visible(p, t)]

\* C18: in a root archive the five archive writes are made in the order
\* bridges, variants, option values, options, root; at no point of it is a
\* variant archived while one of its bridge rows is live, and the root is
\* archived only when everything that hangs on it is.
C18_RootArchiveOrder ==
    \A p \in Procs :
        op[p] = "archive_root" =>
            /\ \A k \in 1..(Len(RootArchiveCalls) - 1) :
                    CalledAfter(p, RootArchiveCalls[k], RootArchiveCalls[k + 1])
            /\ \A x \in ProductsUnder(View(p), productRoot[p].ID) :
                    x.archived_on # Live =>
                        \A b \in View(p)["bridges"] : b.product_id = x.id => b.archived_on # Live
            /\ \A r \in View(p)["roots"] :
                    (r.id = productRoot[p].ID /\ r.archived_on # Live) =>
                        \A x \in DependentsUnder(View(p), productRoot[p].ID) : x.archived_on # Live

\* a root archive has archived the variants of a root with bridge rows and
\* not yet its options
C18_Witness ==
    \E p \in Procs :
        /\ op[p] = "archive_root"
        /\ pc[p] = "rvalues"
        /\ \E b \in BridgesUnder(View(p), productRoot[p].ID) : b.archived_on = Now(p)
        /\ \E o \in OptionsUnder(View(p), productRoot[p].ID) : o.archived_on = Live

\* the transaction of the variant archive of p has been committed
DeletionCommitted(p) ==
    /\ op[p] = "archive_product"
    /\ \/ pc[p] = "awebhooks"
       \/ pc[p] = "done" /\ (resp[p] = "archived" \/ failure[p].step = "webhooks")

\* C19: a variant archive archives the bridge rows of the variant before the
\* variant, both inside one transaction: at no point of it is the variant
\* archived while one of its bridge rows is live, and once it is committed
\* the variant and all its bridge rows are archived.
C19_VariantArchiveOrder ==
    \A p \in Procs :
        op[p] = "archive_product" =>
            /\ CalledAfter(p, "DeleteProductVariantBridgeByProductID", "DeleteProduct")
            /\ InsideOneTransaction(p, "DeleteProductVariantBridgeByProductID")
            /\ InsideOneTransaction(p, "DeleteProduct")
            /\ \A x \in View(p)["products"] :
                    (x.id = product[p].ID /\ x.archived_on # Live) =>
                        \A b \in View(p)["bridges"] : b.product_id = x.id => b.archived_on # Live
            /\ DeletionCommitted(p) =>
                    /\ \E x \in db["products"] : x.id = product[p].ID /\ x.archived_on # Live
                    /\ \A b \in db["bridges"] : b.product_id = product[p].ID => b.archived_on # Live

\* a committed archive of a variant that has a bridge row
C19_Witness ==
    \E p \in Procs :
        /\ DeletionCommitted(p)
        /\ \E b \in db["bridges"] : b.product_id = product[p].ID

\* the variant p was asked to archive was found and has no bridge row
FoundWithoutBridges(p) ==
    /\ op[p] = "archive_product"
    /\ product[p].ID # 0
    /\ ~\E b \in db["bridges"] : b.product_id = product[p].ID

\* C20: the archive of a variant without bridge rows, when no store call
\* fails for a reason of its own, is answered with success and with the
\* variant's archive timestamp, which is the one stored.
C20_ArchiveWithoutBridges ==
    \A p \in Procs :
        (FoundWithoutBridges(p) /\ pc[p] = "done" /\ failure[p].cause # "fault") =>
            /\ resp[p] = "archived"
            /\ product[p].ArchivedOn # Live
            /\ \E x \in db["products"] :
                    x.id = product[p].ID /\ x.archived_on = product[p].ArchivedOn

\* the base variant of a root created without options was archived
C20_Witness ==
    \E p \in Procs :
        /\ FoundWithoutBridges(p)
        /\ pc[p] = "done"
        /\ resp[p] = "archived"
        /\ \E r \in db["roots"] : r.sku_prefix = product[p].SKU

\* the handlers that archive
ArchiveOps == {"archive_product", "archive_option", "archive_root"}

\* the positions at which an archive handler looks its target up
LookupSteps == {"get", "oexists", "rexists"}

\* the committed rows the archive request of p names
TargetRows(p) ==
    CASE op[p] = "archive_product" -> { x \in db["products"] : x.sku = input[p].sku }
      [] op[p] = "archive_option"  -> { o \in db["options"] : o.id = idx[p].optionID }
      [] op[p] = "archive_root"    -> { r \in db["roots"] : r.id = productRoot[p].ID }
      [] OTHER                     -> {}

\* the target of p does not exist, or was archived by an earlier request
TargetGone(p) == \A r \in TargetRows(p) : r.archived_on \notin {Live, reqid[p]}

\* the rows, committed or not, that carry the archive time of request rq
StampedBy(rq) ==
    UNION { { r \in db[t] : r.archived_on = rq } : t \in Tables }
    \cup UNION { UNION { { r \in txn[q].w[t] : r.archived_on = rq } : t \in Tables } :
                    q \in { q \in Procs : txn[q] # NoTx } }

\* C21: an archive request (variant, option or root) whose target does not
\* exist or is already archived, and whose lookup itself did not fail, ends
\* with a not-found answer right after the lookup: it has opened no
\* transaction and no row carries its archive time.
C21_MissingTargetNotFound ==
    \A p \in Procs :
        (/\ op[p] \in ArchiveOps
         /\ pc[p] \notin LookupSteps
         /\ TargetGone(p)
         /\ failure[p].cause # "fault") =>
            /\ pc[p] = "done"
            /\ resp[p] = "not_found"
            /\ CallCount(p, "Begin") = 0
            /\ txn[p] = NoTx
            /\ StampedBy(reqid[p]) = {}

\* the second of two archive requests for the same option has been answered
C21_Witness ==
    \E p \in Procs :
        /\ op[p] = "archive_option"
        /\ pc[p] = "done"
        /\ resp[p] = "not_found"
        /\ \E o \in db["options"] :
            /\ o.id = idx[p].optionID
            /\ o.archived_on \notin {Live, reqid[p]}

\* C22: no step changes or removes a committed row that is archived: its
\* archive time stays what it was.
C22_ArchiveMonotonic ==
    [][\A t \in Tables : \A r \in db[t] : r.archived_on # Live => r \in db'[t]]_vars

\* the archive calls of the variant handler and of the option handler
ArchiveSteps ==
    {"DeleteProductVariantBridgeByProductID", "DeleteProduct",
     "archiveProductOptionValuesForOption", "archiveProductOption"}

\* C23: when an archive call of the variant handler or of the option handler
\* has failed, the request is answered with an internal error, its
\* transaction has been rolled back and is open nowhere, and no row,
\* committed or held by an open transaction, carries its archive time.
C23_FailedArchiveRolledBack ==
    \A p \in Procs :
        (/\ pc[p] = "done"
         /\ op[p] \in {"archive_product", "archive_option"}
         /\ failure[p].step \in ArchiveSteps) =>
            /\ resp[p] = "internal"
            /\ CallCount(p, "Rollback") = 1
            /\ txn[p] = NoTx
            /\ orphaned = {}
            /\ StampedBy(reqid[p]) = {}

\* C24: among the committed rows, a live bridge row references a live
\* variant and a live option value.
C24_NoLiveBridgeToArchived ==
    \A b \in db["bridges"] :
        b.archived_on = Live =>
            /\ \A x \in db["products"] : x.id = b.product_id => x.archived_on = Live
            /\ \A v \in db["values"] : v.id = b.product_option_value_id => v.archived_on = Live

\* the live committed options of a root
LiveOptionsOfRoot(rootID) ==
    { o \in db["options"] : o.product_root_id = rootID /\ o.archived_on = Live }

\* the live committed bridge rows of a variant
LiveBridgesOfVariant(productID) ==
    { b \in db["bridges"] : b.product_id = productID /\ b.archived_on = Live }

\* the live committed bridge rows of a variant to values of an option
BridgesToOption(productID, optionID) ==
    { b \in LiveBridgesOfVariant(productID) :
        \E v \in db["values"] : v.id = b.product_option_value_id /\ v.product_option_id = optionID }

\* nothing has been archived
NothingArchived == \A t \in Tables : \A r \in db[t] : r.archived_on = Live

\* C25: as long as nothing has been archived, every committed variant has as
\* many bridge rows as its root has options, exactly one to a value of each
\* option; a variant of a root without options has none.
C25_OneBridgePerOption ==
    NothingArchived =>
        \A x \in db["products"] :
            /\ Cardinality(LiveBridgesOfVariant(x.id))
                    = Cardinality(LiveOptionsOfRoot(x.product_root_id))
            /\ \A o \in LiveOptionsOfRoot(x.product_root_id) :
                    Cardinality(BridgesToOption(x.id, o.id)) = 1

\* the elements of a sequence
Range(seq) == { seq[i] : i \in 1..Len(seq) }

\* the SKUs of the variants a payload asks for: the prefix, "_" and the
\* lower-cased value for one value of every option in turn
RECURSIVE PlannedSKUs(_, _)
PlannedSKUs(prefix, options) ==
    IF Len(options) = 0 THEN {prefix}
    ELSE UNION { PlannedSKUs(SKUOf(prefix, ToLower(v)), Tail(options)) :
                    v \in Range(Head(options).values) }

\* a sequence holds an element twice
HasRepeats(seq) == \E i, j \in 1..Len(seq) : i < j /\ seq[i] = seq[j]

\* the request of p asks for a variant, an option or a value that an
\* earlier request has committed, archived or not, or for the same option
\* name or value twice
WouldDuplicate(p) ==
    CASE op[p] = "create" /\ pc[p] # "idle" ->
            \/ \E x \in db["products"] :
                    x.req # reqid[p] /\ x.sku \in PlannedSKUs(input[p].sku, input[p].options)
            \/ HasRepeats([i \in 1..Len(input[p].options) |-> input[p].options[i].name])
      [] op[p] = "create_option" ->
            \/ \E o \in db["options"] :
                    /\ o.req # reqid[p]
                    /\ o.product_root_id = productRoot[p].ID
                    /\ o.name = input[p].options[1].name
            \/ HasRepeats(input[p].options[1].values)
      [] op[p] = "create_value" ->
            \E v \in db["values"] :
                /\ v.req # reqid[p]
                /\ v.product_option_id = idx[p].optionID
                /\ v.value = input[p].options[1].values[1]
      [] OTHER -> FALSE

\* C26: among the committed rows, archived ones included, no two variants
\* have the same SKU, no two options of a root the same name and no two
\* values of an option the same value; and a request that asks for such a
\* duplicate has no row among the committed rows.
C26_NoDuplicates ==
    /\ \A x, y \in db["products"] : x.sku = y.sku => x = y
    /\ \A x, y \in db["options"] :
            (x.product_root_id = y.product_root_id /\ x.name = y.name) => x = y
    /\ \A x, y \in db["values"] :
            (x.product_option_id = y.product_option_id /\ x.value = y.value) => x = y
    /\ \A p \in Procs : WouldDuplicate(p) => NoRowsOf(reqid[p])

\* an option is asked for under the name of an archived option of the root:
\* the lookup lets it through and the INSERT has hit the constraint
C26_Witness ==
    \E p \in Procs :
        /\ op[p] = "create_option"
        /\ pc[p] = "done"
        /\ WouldDuplicate(p)
        /\ failure[p] = [step |-> "CreateProductOption", cause |-> "unique"]

\* C27: no step changes the SKU of a committed variant.
C27_SKUImmutable ==
    [][\A x \in db["products"] : \A y \in db'["products"] : y.id = x.id => y.sku = x.sku]_vars

\* the store calls that create rows, by the place of their kind in the
\* order root, options, values, variants, bridges
CreateRank(call) ==
    CASE call = "CreateProductRoot"        -> 1
      [] call = "CreateProductOption"      -> 2
      [] call = "CreateProductOptionValue" -> 3
      [] call = "CreateProduct"            -> 4
      [] call = "CreateMultipleProductVariantBridgesForProductID" -> 5
      [] OTHER -> 0

IsCreateCall(call) == CreateRank(call) > 0

\* the create calls among the store calls of the current request of p
CreateCalls(p) == SelectSeq(calls[p], IsCreateCall)

\* n times x
RECURSIVE Repeat(_, _)
Repeat(x, n) == IF n = 0 THEN <<>> ELSE <<x>> \o Repeat(x, n - 1)

\* per option, the option and then its values
RECURSIVE OptionCalls(_)
OptionCalls(counts) ==
    IF Len(counts) = 0 THEN <<>>
    ELSE <<"CreateProductOption">> \o Repeat("CreateProductOptionValue", Head(counts))
         \o OptionCalls(Tail(counts))

\* per variant, the variant and then its bridge rows in one call
RECURSIVE VariantCalls(_)
VariantCalls(n) ==
    IF n = 0 THEN <<>>
    ELSE <<"CreateProduct", "CreateMultipleProductVariantBridgesForProductID">>
         \o VariantCalls(n - 1)

\* the create calls of a payload whose options have counts values
ExpectedCreateCalls(counts) ==
    <<"CreateProductRoot">> \o OptionCalls(counts)
    \o (IF Len(counts) = 0 THEN <<"CreateProduct">> ELSE VariantCalls(ProductOfCounts(counts)))

IsPrefix(s, t) == Len(s) <= Len(t) /\ SubSeq(t, 1, Len(s)) = s

\* the place of row r among the rows S when they are put in the order of
\* their ids, which is the order in which they were inserted
RankIn(r, S) == Cardinality({ x \in S : x.id <= r.id })

\* the row at place k of S
RowAt(k, S) == CHOOSE r \in S : RankIn(r, S) = k

\* the value rows of req rq under option row o
ValuesOfOption(o, rq) == { v \in RowsOf("values", rq) : v.product_option_id = o.id }

\* the statement as it stands: the create calls of a request come kind by
\* kind, every option before every value, every value before every variant,
\* every variant before every bridge row.
C28_KindByKind ==
    \A p \in Procs :
        op[p] = "create" =>
            \A i, j \in 1..Len(CreateCalls(p)) :
                i < j => CreateRank(CreateCalls(p)[i]) <= CreateRank(CreateCalls(p)[j])

\* C28: the create calls of a request are, in this order, the root; per
\* option in input order the option and then its values in input order; per
\* combination in enumeration order the variant and then the one call that
\* writes its bridge rows, one per option in option order. Row ids, which
\* grow with every insert, follow that order in every table.
C28_CreationOrder ==
    \A p \in Procs :
        (op[p] = "create" /\ pc[p] # "idle") =>
            /\ IsPrefix(CreateCalls(p), ExpectedCreateCalls(ValueCounts(p)))
            /\ (CommittedReq(p) /\ Len(input[p].options) >= 1) =>
                LET rq   == reqid[p]
                    n    == Len(input[p].options)
                    lens == ValueCounts(p)
                    O    == RowsOf("options", rq)
                    V    == RowsOf("values", rq)
                    X    == RowsOf("products", rq)
                    B    == RowsOf("bridges", rq)
                IN /\ CreateCalls(p) = ExpectedCreateCalls(lens)
                   /\ \A o \in O : o.name = input[p].options[RankIn(o, O)].name
                   /\ \A v \in V :
                        LET o == CHOOSE o \in O : o.id = v.product_option_id IN
                        /\ v.value = input[p].options[RankIn(o, O)].values[
                                            RankIn(v, ValuesOfOption(o, rq))]
                        /\ \A w \in V : (w.product_option_id # o.id /\ w.id < v.id) =>
                                \E u \in O : u.id = w.product_option_id /\ u.id < o.id
                   /\ \A x \in X :
                        x.sku = WithSuffixes(input[p].sku,
                                    [j \in 1..n |-> input[p].options[j].values[
                                        OdometerDigit(RankIn(x, X) - 1, j, lens) + 1]])
                   /\ \A b \in B :
                        LET m == RankIn(b, B) - 1
                            x == RowAt((m \div n) + 1, X)
                            o == RowAt((m % n) + 1, O)
                        IN /\ b.product_id = x.id
                           /\ \E v \in ValuesOfOption(o, rq) : v.id = b.product_option_value_id

\* a committed request with two options of two values each: option 2 was
\* created after the values of option 1, variant 2 after the bridge rows of
\* variant 1
C28_Witness ==
    \E p \in Procs :
        /\ op[p] = "create"
        /\ CommittedReq(p)
        /\ ValueCounts(p) = <<2, 2>>
        /\ CreateCalls(p)[5] = "CreateProductOption"
        /\ CreateCalls(p)[10] = "CreateProduct"

\* C29: a creation request that was cancelled while its transaction was open
\* has no row among the committed rows, and once it has ended its
\* transaction was rolled back.
C29_CancelledRollsBack ==
    \A p \in Procs :
        (op[p] = "create" /\ reqid[p] \in cancelled) =>
            /\ NoRowsOf(reqid[p])
            /\ pc[p] = "done" => (txn[p] = NoTx /\ CallCount(p, "Rollback") = 1)

\* the models.ProductOptionValue of a committed value row
ValueOf(v) == [ID |-> v.id, ProductOptionID |-> v.product_option_id, Value |-> v.value]

\* C30: a creation request answered with 201 returns the root of its
\* committed root row with that row's id; one option per option of the
\* payload, in input order, with the id and root id of its committed row and
\* one value per value of the payload, in input order, with the id of its
\* committed row; and one product per committed variant, in the order in
\* which they were created, with the id, root id and SKU of its row and, in
\* option order, the values of the combination that produced it, which are
\* the values its bridge rows name.
C30_ReturnsRootGraph ==
    \A p \in Procs :
        (op[p] = "create" /\ pc[p] = "done" /\ resp[p] = "created") =>
            LET rq   == reqid[p]
                g    == productRoot[p]
                n    == Len(input[p].options)
                lens == ValueCounts(p)
                O    == RowsOf("options", rq)
                X    == RowsOf("products", rq)
            IN /\ \E r \in RowsOf("roots", rq) : r.id = g.ID /\ r.sku_prefix = g.SKUPrefix
               /\ g.ID > 0
               /\ Len(g.Options) = n
               /\ Cardinality(O) = n
               /\ \A i \in 1..n :
                    LET o == RowAt(i, O)
                        V == ValuesOfOption(o, rq)
                    IN /\ g.Options[i].ID = o.id
                       /\ g.Options[i].Name = input[p].options[i].name
                       /\ o.name = input[p].options[i].name
                       /\ g.Options[i].ProductRootID = g.ID
                       /\ Len(g.Options[i].Values) = lens[i]
                       /\ Cardinality(V) = lens[i]
                       /\ \A k \in 1..lens[i] :
                            /\ g.Options[i].Values[k] = ValueOf(RowAt(k, V))
                            /\ g.Options[i].Values[k].Value = input[p].options[i].values[k]
               /\ Len(g.Products) = Cardinality(X)
               /\ Cardinality(X) = ProductOfCounts(lens)
               /\ \A k \in 1..Len(g.Products) :
                    LET x == RowAt(k, X) IN
                    /\ g.Products[k].ID = x.id
                    /\ g.Products[k].ProductRootID = g.ID
                    /\ g.Products[k].SKU = x.sku
                    /\ g.Products[k].OptionSummary = x.option_summary
                    /\ g.Products[k].ApplicableOptionValues =
                            [j \in 1..n |-> g.Options[j].Values[OdometerDigit(k - 1, j, lens) + 1]]
                    /\ { v.ID : v \in Range(g.Products[k].ApplicableOptionValues) }
                            = { b.product_option_value_id : b \in LiveBridgesOfVariant(x.id) }

\* a request with two options of two values each was answered with 201
C30_Witness ==
    \E p \in Procs :
        /\ op[p] = "create"
        /\ pc[p] = "done"
        /\ resp[p] = "created"
        /\ ValueCounts(p) = <<2, 2>>
        /\ Len(productRoot[p].Products) = 4

\* a product row without the fields a combination sets
BaseFieldsOfRow(x) == [x EXCEPT !.id = 0, !.sku = <<>>, !.option_summary = <<>>]

\* a returned product without the fields a combination sets
BaseFieldsOfProduct(x) ==
    [x EXCEPT !.ID = 0, !.SKU = <<>>, !.OptionSummary = <<>>, !.ApplicableOptionValues = <<>>]

\* the product rows the current request of p has written or committed
ProductRowsOfRequest(p) == { x \in Visible(p, "products") : x.req = reqid[p] }

\* two products of the current request of p, stored or returned, differ in
\* nothing that a combination does not set
AlikeButForCombination(p) ==
    /\ \A x, y \in ProductRowsOfRequest(p) : BaseFieldsOfRow(x) = BaseFieldsOfRow(y)
    /\ \A x, y \in Range(productRoot[p].Products) :
            BaseFieldsOfProduct(x) = BaseFieldsOfProduct(y)

\* every product of the current request of p, stored or returned, holds the
\* name and the UPC of the payload and the quantity per package q(payload)
FieldsCarried(p, q(_)) ==
    /\ \A x \in ProductRowsOfRequest(p) :
            /\ x.name = input[p].name
            /\ x.upc = input[p].upc
            /\ x.quantity_per_package = q(input[p].quantity_per_package)
    /\ \A x \in Range(productRoot[p].Products) :
            /\ x.Name = input[p].name
            /\ x.UPC = input[p].upc
            /\ x.QuantityPerPackage = q(input[p].quantity_per_package)

\* the quantity per package as the payload gives it
AsGiven(q) == q

\* the quantity per package the template holds when the variants are cloned
Raised(q) == IF q < 1 THEN 1 ELSE q

\* C31 as stated: while a creation request is served no step changes the
\* payload, every product it has written or returned so far carries the
\* payload's base fields (here the name, the UPC and the quantity per
\* package) unchanged, and the products of one request differ only in id,
\* SKU, option summary and applicable option values.
C31_PayloadFieldsUnchanged ==
    [][\A p \in Procs :
          (op[p] = "create" /\ pc[p] \notin {"idle", "done"}) =>
              /\ input'[p] = input[p]
              /\ op'[p] = "create" => (FieldsCarried(p, AsGiven) /\ AlikeButForCombination(p))']_vars

\* C31: while a creation request is served no step changes the payload, and
\* every product it has written or returned so far carries the payload's
\* name and UPC unchanged and its quantity per package raised to at least 1;
\* the products of one request differ only in id, SKU, option summary and
\* applicable option values.
C31_TemplateCarried ==
    [][\A p \in Procs :
          (op[p] = "create" /\ pc[p] \notin {"idle", "done"}) =>
              /\ input'[p] = input[p]
              /\ op'[p] = "create" => (FieldsCarried(p, Raised) /\ AlikeButForCombination(p))']_vars

\* a request under the second name, without a quantity per package and with
\* two values committed its two variants
C31_Witness ==
    \E p \in Procs :
        /\ op[p] = "create"
        /\ pc[p] = "done"
        /\ resp[p] = "created"
        /\ input[p].name # DefaultName
        /\ input[p].quantity_per_package = 0
        /\ Cardinality({ x \in RowsOf("products", reqid[p]) :
                            x.name = input[p].name /\ x.quantity_per_package = 1 }) >= 2

\* the requests a webhook goroutine was started for
Notified == { d[2] : d \in spawned }

\* C32: a webhook goroutine is started only for a creation request whose
\* transaction was committed (its root row is in the database): none for a
\* request that is still writing, was rejected or was rolled back, or whose
\* commit or webhook lookup failed. The response is written in the step that
\* starts the goroutines, so none of them has returned by then, and that
\* step is enabled whatever the goroutines of earlier requests are doing.
C32_NotifyAfterCommit ==
    [][/\ \A rq \in Notified' : RowsOf("roots", rq)' # {}
       /\ \A p \in Procs :
            /\ (op'[p] = "create" /\ reqid'[p] \in Notified') =>
                    (pc'[p] = "done" /\ resp'[p] = "created")
            /\ (op[p] = "create" /\ pc[p] = "webhooks" /\ resp'[p] = "created") =>
                    /\ pc'[p] = "done"
                    /\ \A d \in delivered' : d[2] # reqid[p]
            /\ (op[p] = "create" /\ pc[p] = "webhooks") => ENABLED NotifyAndRespond(p)]_vars

\* the caller was answered 201 while the webhook goroutine of the request has
\* not returned, after an earlier request was rolled back
C32_Witness ==
    \E p \in Procs :
        /\ op[p] = "create"
        /\ pc[p] = "done"
        /\ resp[p] = "created"
        /\ \E d \in spawned \ delivered : d[2] = reqid[p]
        /\ \E rq \in 1..nreq : rq # reqid[p] /\ rq \notin Notified /\ NoRowsOf(rq)

\* the option archive of p was answered with success
OptionArchived(p) == op[p] = "archive_option" /\ pc[p] = "done" /\ resp[p] = "archived"

\* C33: once an option archive has succeeded, the option carries the time of
\* the request, every value of the option is archived, at that time or
\* before, and the two archive writes were made, the values first, inside
\* one transaction.
C33_OptionArchiveCascades ==
    \A p \in Procs :
        OptionArchived(p) =>
            /\ \E o \in db["options"] : o.id = idx[p].optionID /\ o.archived_on = Now(p)
            /\ \A v \in db["values"] :
                    v.product_option_id = idx[p].optionID =>
                        v.archived_on # Live /\ v.archived_on <= Now(p)
            /\ calls[p] = <<"rowExistsInDB", "Begin", "archiveProductOptionValuesForOption",
                            "archiveProductOption", "Commit">>
            /\ InsideOneTransaction(p, "archiveProductOptionValuesForOption")
            /\ InsideOneTransaction(p, "archiveProductOption")

\* an option was archived with the value it was created with and a value
\* added to it by a later request
C33_Witness ==
    \E p \in Procs :
        /\ OptionArchived(p)
        /\ \E v, w \in db["values"] :
            /\ v.product_option_id = idx[p].optionID
            /\ w.product_option_id = idx[p].optionID
            /\ v.req # w.req
            /\ v.archived_on = Now(p)
            /\ w.archived_on = Now(p)

\* the number of values of each option of a list
LensOf(options) == [j \in 1..Len(options) |-> Len(options[j].Values)]

\* a list the enumerator is meant for: not empty, no option without values
Enumerable(options) == Len(options) > 0 /\ \A j \in 1..Len(options) : Len(options[j].Values) > 0

\* the loop of generateCartesianProductForOptions run for at most fuel
\* iterations: the number of iterations it made when the loop condition
\* became false, -1 if it was still running when the fuel ran out, -2 if a
\* counter was out of range
RECURSIVE LoopSteps(_, _, _, _)
LoopSteps(ix, od, made, fuel) ==
    IF ~(ix[1] < Len(od[1])) THEN made
    ELSE IF \E j \in 1..Len(ix) : ix[j] >= Len(od[j]) THEN -2
    ELSE IF fuel = 0 THEN -1
    ELSE LoopSteps(next(ix, od), od, made + 1, fuel - 1)

\* C34: for a list of at least one option, all with at least one value, the
\* loop of the enumerator stops after v1*...*vn iterations with every counter
\* in range throughout, and the call returns without a panic one combination
\* per iteration.
C34_EnumeratorTerminates ==
    Enumerable(enumerated.options) =>
        LET od    == optionPlaceholders(enumerated.options)
            total == ProductOfCounts(LensOf(enumerated.options))
        IN /\ LoopSteps([j \in 1..Len(od) |-> 0], od, 0, total + 1) = total
           /\ enumerated.ran =>
                /\ ~enumerated.panicked
                /\ Len(enumerated.output) = total

\* the enumerator returned the four combinations of two options of two values
C34_Witness ==
    /\ enumerated.ran
    /\ Enumerable(enumerated.options)
    /\ LensOf(enumerated.options) = <<2, 2>>
    /\ Len(enumerated.output) = 4

\* the names of a list are pairwise distinct, and so are the values of each
\* of its options
DistinctNamesAndValues(options) ==
    /\ ~HasRepeats([j \in 1..Len(options) |-> options[j].Name])
    /\ \A j \in 1..Len(options) :
            ~HasRepeats([k \in 1..Len(options[j].Values) |-> options[j].Values[k].Value])

\* C35: handed options with pairwise distinct names and, within each option,
\* pairwise distinct values, the enumerator gives two different combinations
\* two different SKU suffixes.
C35_DistinctSuffixes ==
    (enumerated.ran /\ ~enumerated.panicked /\ DistinctNamesAndValues(enumerated.options)) =>
        \A i, j \in 1..Len(enumerated.output) :
            i # j => enumerated.output[i].SKUPostfix # enumerated.output[j].SKUPostfix

\* the payload of p has pairwise distinct option names and, in every option,
\* at least one value and no value twice
WellFormedOptions(p) ==
    /\ ~HasRepeats([i \in 1..Len(input[p].options) |-> input[p].options[i].name])
    /\ \A i \in 1..Len(input[p].options) :
            /\ Len(input[p].options[i].values) > 0
            /\ ~HasRepeats(input[p].options[i].values)

\* C36: a finished creation request with a valid SKU that no root committed
\* before it holds, with well-formed options, and none of whose store calls
\* failed for a reason of the store's own, was answered 201.
C36_ValidCommitSucceeds ==
    \A p \in Procs :
        (/\ op[p] = "create"
         /\ pc[p] = "done"
         /\ restrictedStringIsValid(input[p].sku)
         /\ ~PrefixTaken(p)
         /\ WellFormedOptions(p)
         /\ failure[p].cause # "fault") => resp[p] = "created"

\* the bridge rows of product x, committed or not
BridgesOf(x) == { b \in AllRows("bridges") : b.product_id = x.id }

\* the value rows product x is bridged to under option o
ValuesUnderOption(x, o) ==
    { v \in AllRows("values") :
        /\ v.product_option_id = o.id
        /\ \E b \in BridgesOf(x) : b.product_option_value_id = v.id }

\* C37: every bridge row, committed or not, links a product of its own
\* request to a value of its own request whose option belongs to the root of
\* that product; and every product of a committed request with options has
\* one bridge row per option of its root, to exactly one value of each, and
\* its SKU is the root's prefix followed by those values in option order.
C37_BridgesWithinCommit ==
    /\ \A b \in AllRows("bridges") :
        \E x \in AllRows("products"), v \in AllRows("values"), o \in AllRows("options") :
            /\ x.id = b.product_id
            /\ v.id = b.product_option_value_id
            /\ o.id = v.product_option_id
            /\ x.req = b.req /\ v.req = b.req /\ o.req = b.req
            /\ o.product_root_id = x.product_root_id
    /\ \A p \in Procs :
        (op[p] = "create" /\ CommittedReq(p) /\ Len(input[p].options) >= 1) =>
            LET O == RowsOf("options", reqid[p]) IN
            \A x \in RowsOf("products", reqid[p]) :
                /\ Cardinality(BridgesOf(x)) = Cardinality(O)
                /\ \A o \in O : Cardinality(ValuesUnderOption(x, o)) = 1
                /\ \E r \in RowsOf("roots", reqid[p]) :
                    /\ r.id = x.product_root_id
                    /\ \A o \in O : o.product_root_id = r.id
                    /\ x.sku = WithSuffixes(r.sku_prefix,
                            [i \in 1..Cardinality(O) |->
                                (CHOOSE v \in ValuesUnderOption(x, RowAt(i, O)) : TRUE).value])

\* two requests with options were committed side by side, one with two
\* options and one with two values, a value of one written between the
\* values of the other
C37_Witness ==
    /\ \A p \in Procs : op[p] = "create" /\ CommittedReq(p) /\ Len(input[p].options) >= 1
    /\ \E p \in Procs : Len(input[p].options) = 2
    /\ \E p \in Procs : Cardinality(RowsOf("products", reqid[p])) = 2
    /\ \E b, c, d \in db["values"] : b.id < c.id /\ c.id < d.id /\ b.req = d.req /\ b.req # c.req

\* rows after holds the rows of before, each unchanged or, where touched
\* allows it, with archived_on set to at and nothing else changed
OnlyArchives(before, after, at, touched(_)) ==
    /\ { r.id : r \in after } = { r.id : r \in before }
    /\ \A r \in before : \E n \in after :
        /\ n.id = r.id
        /\ \/ n = r
           \/ touched(r) /\ r.archived_on = Live /\ n = [r EXCEPT !.archived_on = at]

\* C38: after every step of a variant archive the committed rows, and the
\* rows its transaction sees, are the rows committed before the step with
\* every root, option and option value as it was, and with nothing changed
\* in the products and bridge rows but archived_on of the variant and of
\* bridge rows of the variant that were live, set to the time of the
\* request; a request that found no variant changes nothing.
C38_VariantArchiveFrame ==
    [][\A p \in Procs :
          (op[p] = "archive_product" /\ op'[p] = "archive_product" /\ reqid'[p] = reqid[p]) =>
              LET isVariant(r) == r.id = product'[p].ID
                  isBridge(r)  == r.product_id = product'[p].ID
                  never(r)     == FALSE
              IN /\ \A t \in {"roots", "options", "values"} :
                        /\ db'[t] = db[t]
                        /\ Visible(p, t)' = db[t]
                 /\ OnlyArchives(db["products"], db'["products"], Now(p), isVariant)
                 /\ OnlyArchives(db["bridges"], db'["bridges"], Now(p), isBridge)
                 /\ OnlyArchives(db["products"], Visible(p, "products")', Now(p), isVariant)
                 /\ OnlyArchives(db["bridges"], Visible(p, "bridges")', Now(p), isBridge)
                 /\ product[p].ID = 0 =>
                        OnlyArchives(db["products"], db'["products"], Now(p), never)]_vars

\* a variant and its bridge row were archived while another variant of the
\* root and its bridge row stay live
C38_Witness ==
    \E p \in Procs :
        /\ DeletionCommitted(p)
        /\ \E b \in db["bridges"] : b.product_id = product[p].ID /\ b.archived_on = Now(p)
        /\ \E x \in db["products"] :
            /\ x.id # product[p].ID
            /\ x.archived_on = Live
            /\ \E b \in db["bridges"] : b.product_id = x.id /\ b.archived_on = Live

\* the option creation of p asks for the name of an archived option of its
\* root
NameReserved(p) ==
    /\ op[p] = "create_option"
    /\ \E o \in db["options"] :
        /\ o.product_root_id = productRoot[p].ID
        /\ o.name = input[p].options[1].name
        /\ o.archived_on # Live
        /\ o.req # reqid[p]

\* C39: a root has at most one option row per name, archived rows counted;
\* an option creation under the name of an archived option of the root has
\* written no row, and once finished without a fault of the store it has
\* passed both lookups, opened a transaction, failed on the INSERT of the
\* option with a unique violation, rolled back and answered 500.
C39_ArchivedNameReserved ==
    /\ \A x, y \in AllRows("options") :
            (x.product_root_id = y.product_root_id /\ x.name = y.name) => x.id = y.id
    /\ \A p \in Procs :
        NameReserved(p) =>
            /\ NoRowsOf(reqid[p])
            /\ \A t \in Tables : txn[p].w[t] = {}
            /\ (pc[p] = "done" /\ failure[p].cause # "fault") =>
                    /\ resp[p] = "internal"
                    /\ failure[p] = [step |-> "CreateProductOption", cause |-> "unique"]
                    /\ calls[p] = <<"rowExistsInDB", "productOptionAlreadyExistsForProduct",
                                    "Begin", "CreateProductOption", "Rollback">>

\* an option was created with its root, archived by the next request, and
\* asked for again, with a value, by the request after that, which was
\* answered 500
C39_Witness ==
    \E p \in Procs :
        /\ NameReserved(p)
        /\ pc[p] = "done"
        /\ resp[p] = "internal"
        /\ Len(input[p].options[1].values) = 1
        /\ calls[p][Len(calls[p])] = "Rollback"
        /\ \E o \in db["options"] :
            /\ o.product_root_id = productRoot[p].ID
            /\ o.name = input[p].options[1].name
            /\ o.archived_on = reqid[p] - 1
            /\ o.req = reqid[p] - 2
====
